---- MODULE Spec2Model ----
(***************************************************************************)
(* Client-side data-window management of the data grid: the Redux slice    *)
(* dataGridSlice (store/dataGridSlice.ts, src/unnamed/part_009), the axios  *)
(* data service with its three AbortControllers (services/api.service.ts,   *)
(* src/unnamed/part_001) and the DataGrid component's load-more handler.    *)
(*                                                                         *)
(* JavaScript is single-threaded: every action below is one task or one    *)
(* microtask of the event loop.  A dispatch of an async thunk runs the     *)
(* pending reducer and the payload creator up to its first await in the    *)
(* same task; promise continuations that are already settled (an aborted   *)
(* request, a thrown error, an early return) run as microtasks before any  *)
(* other task.                                                             *)
(***************************************************************************)
EXTENDS Integers, Sequences, FiniteSets, TLC

VARIABLES
    dataGrid,       \* the slice state (PrefetchState)
    controllers,    \* the module-level AbortControllers of api.service.ts
    reqs,           \* every data thunk / search call started so far, by id
    metadataFetch,  \* the fetchMetadata thunk: "idle", "inflight", "fulfilled", "rejected"
    serverTotal,    \* number of rows the query collaborator holds
    nUserOps,       \* number of synchronous reducer dispatches so far
    lastOp,         \* the operation performed by the last step
    rtRanges,       \* RangeTracker alone: the tracked ranges
    rtAdded,        \* RangeTracker alone: the intervals added since the last shift
    rtPrev,         \* RangeTracker alone: the tracked ranges before the last add
    viewport,       \* useVirtualScroll: its state, its ref and the props it is given
    rowSpan,        \* useRowSpanning: the props it is given (data, columnNames, dimensionCount)
    table,          \* VirtualTable: mounted or not, loadMoreTriggeredRef, the data.length its effect saw
    refreshDeps,    \* DataGrid: the dependencies its refresh effect saw when it last ran
    searchBar       \* SearchBar: results, showDropdown, isLoading, the query sent, console.error calls

vars == <<dataGrid, controllers, reqs, metadataFetch, serverTotal, nUserOps, lastOp,
          rtRanges, rtAdded, rtPrev, viewport, rowSpan, table, refreshDeps,
          searchBar>>

storeVars == <<dataGrid, controllers, reqs, metadataFetch, serverTotal, nUserOps, lastOp>>
rtVars == <<rtRanges, rtAdded, rtPrev>>
uiVars == <<viewport, rowSpan, table, refreshDeps, searchBar>>

(***************************************************************************)
(* Sizes.  BATCH_SIZE and MAX_CACHED_ROWS are 2000 and 10000 in the source  *)
(* (part_009 lines 15-16); the model scales them down, keeping             *)
(* 2 * BATCH_SIZE <= MAX_CACHED_ROWS.                                       *)
(***************************************************************************)
BATCH_SIZE == 2
MAX_CACHED_ROWS == 5
MaxServerRows == 6
MaxRequests == 3
MaxSequentialLoads == 4
MaxUiEvents == 3
MaxRangePos == 5
MaxAdds == 3
MaxRowHeight == 3
MaxContainerHeight == 3
MaxOverscan == 2
MaxBufferRows == 5
MaxSpanRows == 4
MaxTableEvents == 2

NULL == "null"

Min(a, b) == IF a <= b THEN a ELSE b
Max(a, b) == IF a >= b THEN a ELSE b

RECURSIVE IndexOfFrom(_, _, _)
IndexOfFrom(s, x, i) ==
    IF i > Len(s) THEN 0
    ELSE IF s[i] = x THEN i
    ELSE IndexOfFrom(s, x, i + 1)

\* Array.prototype.indexOf, 1-based; 0 stands for -1
IndexOf(s, x) == IndexOfFrom(s, x, 1)

Includes(s, x) == IndexOf(s, x) # 0

\* Array.prototype.splice(index, 1) with a 0-based index
Splice1(s, index) ==
    IF index < 0 \/ index >= Len(s) THEN s
    ELSE [i \in 1..(Len(s) - 1) |-> IF i <= index THEN s[i] ELSE s[i + 1]]

\* Array.prototype.slice(n)
SliceFrom(s, n) ==
    IF n >= Len(s) THEN <<>>
    ELSE [i \in 1..(Len(s) - n) |-> s[i + n]]

(***************************************************************************)
(* RangeTracker helpers (part_009 lines 85-111)                            *)
(***************************************************************************)
Range(s, e) == [start |-> s, end |-> e]

isRangeLoaded(ranges, offset, limit) ==
    LET requestEnd == offset + limit
    IN \E i \in 1..Len(ranges) :
          ranges[i].start <= offset /\ ranges[i].end >= requestEnd

\* one step of a stable insertion sort on start
RECURSIVE InsertByStart(_, _)
InsertByStart(sorted, r) ==
    IF Len(sorted) = 0 THEN <<r>>
    ELSE IF sorted[Len(sorted)].start <= r.start THEN Append(sorted, r)
    ELSE Append(InsertByStart(SubSeq(sorted, 1, Len(sorted) - 1), r),
                sorted[Len(sorted)])

RECURSIVE SortByStartFrom(_, _, _)
SortByStartFrom(ranges, i, acc) ==
    IF i > Len(ranges) THEN acc
    ELSE SortByStartFrom(ranges, i + 1, InsertByStart(acc, ranges[i]))

\* [...ranges].sort((a, b) => a.start - b.start), a stable sort
SortByStart(ranges) == SortByStartFrom(ranges, 1, <<>>)

\* the merge test of the loop body, line 103, never merging
MergesIntoLastNever(last, current) == FALSE

\* the merge test of the loop body, line 103
MergesIntoLast(last, current) == current.start <= last.end + 1

RECURSIVE MergeFrom(_, _, _)
MergeFrom(sorted, i, merged) ==
    IF i > Len(sorted) THEN merged
    ELSE LET last == merged[Len(merged)]
             current == sorted[i]
         IN IF MergesIntoLast(last, current)
            THEN MergeFrom(sorted, i + 1,
                     [merged EXCEPT ![Len(merged)].end = Max(last.end, current.end)])
            ELSE MergeFrom(sorted, i + 1, Append(merged, current))

mergeRanges(ranges) ==
    IF Len(ranges) = 0 THEN <<>>
    ELSE LET sorted == SortByStart(ranges)
         IN MergeFrom(sorted, 2, <<sorted[1]>>)

\* the range adjustment without Math.max(0, ...)
ShiftRangesUnclamped(ranges, excessRows) ==
    LET shifted == [i \in 1..Len(ranges) |->
                       Range(ranges[i].start - excessRows,
                             ranges[i].end - excessRows)]
        NonEmpty(r) == r.end > r.start
    IN SelectSeq(shifted, NonEmpty)

\* the range adjustment after eviction, lines 485-488
ShiftRanges(ranges, excessRows) ==
    LET shifted == [i \in 1..Len(ranges) |->
                       Range(Max(0, ranges[i].start - excessRows),
                             Max(0, ranges[i].end - excessRows))]
        NonEmpty(r) == r.end > r.start
    IN SelectSeq(shifted, NonEmpty)

(***************************************************************************)
(* The windowing engine: useVirtualScroll (part_006 lines 23-70).          *)
(* Pixel quantities are whole numbers; Math.floor and Math.ceil of a       *)
(* quotient are computed as such.                                          *)
(***************************************************************************)
\* Math.floor(a / b) for b > 0
FloorDiv(a, b) == a \div b

\* Math.ceil(a / b) for b > 0
CeilDiv(a, b) == (a + b - 1) \div b

\* the window with the end rounded down
VisibleRangeFloorEnd(scrollTop, containerHeight, rowHeight, totalRows, overscan) ==
    [startIndex  |-> Max(0, FloorDiv(scrollTop, rowHeight) - overscan),
     endIndex    |-> Min(totalRows, FloorDiv(scrollTop + containerHeight, rowHeight) + overscan),
     visibleRows |-> CeilDiv(containerHeight, rowHeight)]

\* the useMemo of lines 33-43
VisibleRange(scrollTop, containerHeight, rowHeight, totalRows, overscan) ==
    [startIndex  |-> Max(0, FloorDiv(scrollTop, rowHeight) - overscan),
     endIndex    |-> Min(totalRows, CeilDiv(scrollTop + containerHeight, rowHeight) + overscan),
     visibleRows |-> CeilDiv(containerHeight, rowHeight)]

\* no animation-frame callback is pending
NoFrame == -1

\* the hook on mount: useState(0), useRef(false)
InitialViewport(containerHeight, rowHeight, totalRows, overscan) ==
    [scrollTop       |-> 0,
     tickingRef      |-> FALSE,
     frame           |-> NoFrame,
     lastEvent       |-> 0,
     containerHeight |-> containerHeight,
     rowHeight       |-> rowHeight,
     totalRows       |-> totalRows,
     overscan        |-> overscan]

\* what the hook returns for its current state and props
Window(v) ==
    VisibleRange(v.scrollTop, v.containerHeight, v.rowHeight, v.totalRows, v.overscan)

\* totalHeight, line 49
TotalHeight(v) == v.totalRows * v.rowHeight

\* offsetTop taken from the scrolled row, without the overscan
OffsetTopOfScrolledRow(v) == FloorDiv(v.scrollTop, v.rowHeight) * v.rowHeight

\* offsetTop, line 46
OffsetTop(v) == Window(v).startIndex * v.rowHeight

(***************************************************************************)
(* Row grouping: useRowSpanning (part_004 lines 8-172).  Rows and columns  *)
(* are indexed from 0 as in the source; the group map is a function from   *)
(* <<row, column>> to the group's info.                                    *)
(***************************************************************************)
SPANNING_COLUMNS == {"principal_category", "main_category", "category", "sub_category"}

\* String.prototype.toLowerCase on the column names in use
ToLowerCase(name) == IF name = "Category" THEN "category" ELSE name

\* data[row]?.[col]
CellAt(data, row, col) ==
    IF row < Len(data) /\ col < Len(data[row + 1]) THEN data[row + 1][col + 1] ELSE "undefined"

\* the allow-list applied to every column, metric columns included
spanningColIndicesAnyPosition(columnNames, dimensionCount) ==
    {index \in 0..(Len(columnNames) - 1) :
        ToLowerCase(columnNames[index + 1]) \in SPANNING_COLUMNS}

\* lines 38-46
spanningColIndices(columnNames, dimensionCount) ==
    {index \in 0..(Len(columnNames) - 1) :
        /\ ToLowerCase(columnNames[index + 1]) \in SPANNING_COLUMNS
        /\ index < dimensionCount}

\* a comparison of the child column only
checkPrevSpanningColumnsIgnored(data, row1, row2, upToCol, spanning) == TRUE

\* lines 157-172
checkPrevSpanningColumnsMatch(data, row1, row2, upToCol, spanning) ==
    \A c \in 0..(upToCol - 1) :
        c \in spanning => CellAt(data, row1, c) = CellAt(data, row2, c)

\* the group's row count taken one too large
GroupInfoInclusive(value, startRow, rowCount) ==
    [value |-> value, startRow |-> startRow, rowCount |-> rowCount + 1]

GroupInfo(value, startRow, rowCount) ==
    [value |-> value, startRow |-> startRow, rowCount |-> rowCount]

\* the inner loop, lines 61-84, from rowIndex on
RECURSIVE GroupRows(_, _, _, _, _, _, _)
GroupRows(data, spanning, colIndex, rowIndex, groupStart, currentValue, map) ==
    IF rowIndex > Len(data)
    THEN map
    ELSE LET value == IF rowIndex < Len(data) THEN CellAt(data, rowIndex, colIndex) ELSE NULL
             prevColumnsMatch ==
                 checkPrevSpanningColumnsMatch(data, groupStart, rowIndex, colIndex, spanning)
         IN IF value # currentValue \/ ~prevColumnsMatch \/ rowIndex = Len(data)
            THEN LET info == GroupInfo(currentValue, groupStart, rowIndex - groupStart)
                     set == [k \in {<<r, colIndex>> : r \in groupStart..(rowIndex - 1)} |-> info]
                 IN GroupRows(data, spanning, colIndex, rowIndex + 1, rowIndex, value,
                              set @@ map)
            ELSE GroupRows(data, spanning, colIndex, rowIndex + 1, groupStart,
                           currentValue, map)

\* the outer loop, lines 57-85, over the spanning columns not yet done
RECURSIVE GroupColumns(_, _, _, _)
GroupColumns(data, spanning, todo, map) ==
    IF todo = {}
    THEN map
    ELSE LET colIndex == CHOOSE c \in todo : \A d \in todo : c <= d
         IN GroupColumns(data, spanning, todo \ {colIndex},
                         GroupRows(data, spanning, colIndex, 1, 0,
                                   CellAt(data, 0, colIndex), map))

\* lines 49-88
groupMap(data, spanning) ==
    IF Len(data) = 0 \/ spanning = {}
    THEN <<>>
    ELSE GroupColumns(data, spanning, spanning, <<>>)

NoGroupInfo == GroupInfo("undefined", -1, 0)

\* lines 146-148; null is NoGroupInfo
getGroupInfo(r, rowIndex, colIndex) ==
    LET map == groupMap(r.data, spanningColIndices(r.columnNames, r.dimensionCount))
    IN IF <<rowIndex, colIndex>> \in DOMAIN map THEN map[<<rowIndex, colIndex>>] ELSE NoGroupInfo

\* lines 150-152
isGroupingColumn(r, colIndex) ==
    colIndex \in spanningColIndices(r.columnNames, r.dimensionCount)

\* a span entry for every run
SpanRecordedForEveryRun(span) == span > 0

\* line 110
SpanRecorded(span) == span > 1

\* the inner loop of the span map, lines 102-120, from rowIndex on
RECURSIVE SpanRows(_, _, _, _, _, _, _)
SpanRows(data, spanning, colIndex, rowIndex, spanStart, currentValue, map) ==
    IF rowIndex > Len(data)
    THEN map
    ELSE LET value == IF rowIndex < Len(data) THEN CellAt(data, rowIndex, colIndex) ELSE NULL
             prevColumnsMatch ==
                 checkPrevSpanningColumnsMatch(data, spanStart, rowIndex, colIndex, spanning)
         IN IF value # currentValue \/ ~prevColumnsMatch \/ rowIndex = Len(data)
            THEN LET span == rowIndex - spanStart
                     entry == [rowIndex |-> spanStart, colIndex |-> colIndex, span |-> span]
                 IN SpanRows(data, spanning, colIndex, rowIndex + 1, rowIndex, value,
                             IF SpanRecorded(span)
                             THEN (<<spanStart, colIndex>> :> entry) @@ map
                             ELSE map)
            ELSE SpanRows(data, spanning, colIndex, rowIndex + 1, spanStart,
                          currentValue, map)

\* the outer loop of the span map, lines 98-121, over the spanning columns not yet done
RECURSIVE SpanColumns(_, _, _, _)
SpanColumns(data, spanning, todo, map) ==
    IF todo = {}
    THEN map
    ELSE LET colIndex == CHOOSE c \in todo : \A d \in todo : c <= d
         IN SpanColumns(data, spanning, todo \ {colIndex},
                        SpanRows(data, spanning, colIndex, 1, 0,
                                 CellAt(data, 0, colIndex), map))

\* lines 90-124
spanMap(data, spanning) ==
    IF Len(data) = 0 \/ spanning = {}
    THEN <<>>
    ELSE SpanColumns(data, spanning, spanning, <<>>)

\* lines 126-137
shouldRender(r, rowIndex, colIndex) ==
    IF ~isGroupingColumn(r, colIndex) THEN TRUE
    ELSE IF colIndex >= r.dimensionCount THEN TRUE
    ELSE LET groupInfo == getGroupInfo(r, rowIndex, colIndex)
         IN IF groupInfo # NoGroupInfo THEN rowIndex = groupInfo.startRow ELSE TRUE

\* lines 139-144
getRowSpan(r, rowIndex, colIndex) ==
    IF ~isGroupingColumn(r, colIndex) THEN 1
    ELSE LET map == spanMap(r.data, spanningColIndices(r.columnNames, r.dimensionCount))
         IN IF <<rowIndex, colIndex>> \in DOMAIN map /\ map[<<rowIndex, colIndex>>].span # 0
            THEN map[<<rowIndex, colIndex>>].span
            ELSE 1

\* a scroll event that has not happened
NoScroll == [atProgress |-> FALSE, nearBottom |-> FALSE, calls |-> 0]

\* VirtualTable while DataGrid shows its loading container instead.  event is
\* the last scroll event it handled (which trigger conditions its position met,
\* how often it called onLoadMore); epoch is the length of the visible buffer
\* and the onLoadMore calls made since that length last changed
Unmounted ==
    [mounted |-> FALSE, loadMoreTriggeredRef |-> FALSE, dataLength |-> 0,
     event |-> NoScroll, epoch |-> [length |-> 0, calls |-> 0]]

\* the hook without props worth grouping
NoRowSpan == [data |-> <<>>, columnNames |-> <<>>, dimensionCount |-> 0]

\* SearchBar on mount: its useState calls, SearchBar.tsx lines 27-32; sent is
\* the query of the last request handed to dataService.search, errors counts
\* the console.error calls
InitialSearchBar ==
    [results |-> <<>>, showDropdown |-> FALSE, isLoading |-> FALSE,
     sent |-> <<>>, errors |-> 0]

\* DataGrid before its first render: the refresh effect has not run
NoDeps == <<>>

\* the dependency array of the refresh effect, DataGrid.tsx line 267
RefreshDeps(state) ==
    <<state.metadata, state.needsDataRefresh, state.selectedDimensions>>

\* a refresh effect that fetches whatever needsDataRefresh says
RefreshConditionAlways(state) ==
    state.metadata.loaded /\ Len(state.selectedDimensions) > 0

\* the condition of the refresh effect, DataGrid.tsx line 263
RefreshCondition(state) ==
    /\ state.metadata.loaded
    /\ state.needsDataRefresh
    /\ Len(state.selectedDimensions) > 0

(***************************************************************************)
(* The query collaborator.  A cell is identified by the server offset of   *)
(* its row, its column and the query it answers; a row is the sequence of  *)
(* its cells in the column order of the response.                          *)
(***************************************************************************)
Dimensions == {"master_brand_id", "category"}
AllMetricNames == <<"ads_spend", "ads_sale">>
Sorts == {<<"ads_spend", "desc">>, <<"ads_spend", "asc">>}
FilterValues == {"f1"}
SearchTexts == {"", "abc"}
Comparisons == {NULL, "cmp"}

RangeOfSeq(s) == {s[i] : i \in 1..Len(s)}

\* TableMetadata, or null before it is loaded
Metadata == [loaded |-> TRUE, metrics |-> AllMetricNames]
NoMetadata == [loaded |-> FALSE, metrics |-> <<>>]

\* the request built by the thunks, lines 175-184 and 220-229
QueryRequest(state, offset, limit) ==
    [dimensions |-> state.selectedDimensions,
     metrics    |-> [i \in 1..Len(state.metadata.metrics) |-> state.metadata.metrics[i]],
     filters    |-> state.filters,
     sort       |-> state.sort,
     offset     |-> offset,
     limit      |-> limit,
     search     |-> state.searchText,
     comparison |-> state.comparison]

\* the query a row answers: the request without its paging window
QueryKey(request) ==
    <<request.dimensions, request.filters, request.sort, request.search,
      request.comparison>>

ColumnType(col) == IF col \in Dimensions THEN "varchar" ELSE "double"

ResponseColumns(request) == request.dimensions \o request.metrics

ServerRow(request, off) ==
    LET cols == ResponseColumns(request)
    IN [c \in 1..Len(cols) |-> <<off, cols[c], QueryKey(request)>>]

\* number of rows the server returns for a paging window
ResponseLength(request, total) ==
    Max(0, Min(request.limit, total - request.offset))

ResponseData(request, total) ==
    [i \in 1..ResponseLength(request, total) |->
        ServerRow(request, request.offset + i - 1)]

\* ColumnarQueryResponse
Response(request, total) ==
    LET cols == ResponseColumns(request)
    IN [columns     |-> cols,
        columnTypes |-> [c \in 1..Len(cols) |-> ColumnType(cols[c])],
        data        |-> ResponseData(request, total),
        totalRows   |-> total]

(***************************************************************************)
(* The visible projection (part_009 lines 116-142)                         *)
(***************************************************************************)
Undefined == "undefined"

filterVisibleData(allColumns, allData, selectedDimensions, selectedMetrics) ==
    LET visibleColumns == selectedDimensions \o selectedMetrics
        found == [i \in 1..Len(visibleColumns) |-> IndexOf(allColumns, visibleColumns[i])]
        IsFound(idx) == idx # 0
        columnIndices == SelectSeq(found, IsFound)
        Cell(row, idx) == IF idx <= Len(row) THEN row[idx] ELSE Undefined
    IN [visibleColumns |-> [i \in 1..Len(columnIndices) |-> allColumns[columnIndices[i]]],
        visibleData    |-> [r \in 1..Len(allData) |->
                              [i \in 1..Len(columnIndices) |-> Cell(allData[r], columnIndices[i])]],
        columnIndices  |-> columnIndices]

\* the columnTypes lookup repeated after every projection, e.g. lines 284-287
VisibleColumnTypes(state, visibleColumns) ==
    [i \in 1..Len(visibleColumns) |->
        LET idx == IndexOf(state.allColumns, visibleColumns[i])
        IN IF idx >= 1 /\ idx <= Len(state.allColumnTypes)
           THEN state.allColumnTypes[idx] ELSE "varchar"]

\* lines 276-287, 299-310, 394-406, 449-461: project and store the result
Reproject(state) ==
    LET f == filterVisibleData(state.allColumns, state.allData,
                               state.selectedDimensions, state.selectedMetrics)
    IN [state EXCEPT !.columns = f.visibleColumns,
                     !.data = f.visibleData,
                     !.columnTypes = VisibleColumnTypes(state, f.visibleColumns)]

(***************************************************************************)
(* The slice: initial state and reducers (part_009 lines 44-76, 248-357)   *)
(***************************************************************************)
initialState ==
    [selectedDimensions |-> <<"master_brand_id">>,
     selectedMetrics    |-> <<"ads_spend", "ads_sale">>,
     filters            |-> <<>>,
     sort               |-> <<"ads_spend", "desc">>,
     searchText         |-> "",
     comparison         |-> NULL,
     isLoading          |-> FALSE,
     error              |-> NULL,
     metadata           |-> NoMetadata,
     columns            |-> <<>>,
     columnTypes        |-> <<>>,
     data               |-> <<>>,
     totalRows          |-> 0,
     allColumns         |-> <<>>,
     allColumnTypes     |-> <<>>,
     allData            |-> <<>>,
     loadedRanges       |-> <<>>,
     isPrefetching      |-> FALSE,
     currentQueryId     |-> 0,
     needsDataRefresh   |-> TRUE]

\* "Reset data - will trigger new API call", lines 252-254 and their repeats
ResetData(state) ==
    [state EXCEPT !.allData = <<>>, !.loadedRanges = <<>>, !.needsDataRefresh = TRUE]

setSelectedDimensions(state, payload) ==
    ResetData([state EXCEPT !.selectedDimensions = payload])

addDimension(state, payload) ==
    IF ~Includes(state.selectedDimensions, payload)
    THEN ResetData([state EXCEPT !.selectedDimensions = Append(@, payload)])
    ELSE state

removeDimension(state, payload) ==
    LET Other(d) == d # payload
    IN ResetData([state EXCEPT !.selectedDimensions = SelectSeq(@, Other)])

\* a metric reducer that also asks for a refresh and drops the buffer
setSelectedMetricsRefetch(state, payload) ==
    ResetData([state EXCEPT !.selectedMetrics = payload])

setSelectedMetrics(state, payload) ==
    LET s1 == [state EXCEPT !.selectedMetrics = payload]
    IN IF Len(s1.allData) > 0 THEN Reproject(s1) ELSE s1

\* a toggle that changes the selection and leaves the projection as it was
toggleMetricStale(state, payload) ==
    LET index == IndexOf(state.selectedMetrics, payload)
    IN IF index = 0
       THEN [state EXCEPT !.selectedMetrics = Append(@, payload)]
       ELSE [state EXCEPT !.selectedMetrics = Splice1(@, index - 1)]

toggleMetric(state, payload) ==
    LET index == IndexOf(state.selectedMetrics, payload)
        s1 == IF index = 0
              THEN [state EXCEPT !.selectedMetrics = Append(@, payload)]
              ELSE [state EXCEPT !.selectedMetrics = Splice1(@, index - 1)]
    IN IF Len(s1.allData) > 0 THEN Reproject(s1) ELSE s1

setFilters(state, payload) == ResetData([state EXCEPT !.filters = payload])

addFilter(state, payload) == ResetData([state EXCEPT !.filters = Append(@, payload)])

removeFilter(state, payload) == ResetData([state EXCEPT !.filters = Splice1(@, payload)])

setSort(state, payload) == ResetData([state EXCEPT !.sort = payload])

setSearchText(state, payload) == [state EXCEPT !.searchText = payload]

setComparison(state, payload) == [state EXCEPT !.comparison = payload]

clearError(state) == [state EXCEPT !.error = NULL]

markRefreshComplete(state) == [state EXCEPT !.needsDataRefresh = FALSE]

selectHasMoreData(state) == Len(state.allData) < state.totalRows

(***************************************************************************)
(* Extra reducers of the async thunks (part_009 lines 359-503)             *)
(***************************************************************************)
RequestCancelled == "Request cancelled"
NetworkError == "Network Error"
\* action.error.message of a failed request: the error's message, or none
ErrorMessages == {NetworkError, Undefined}

fetchMetadata_pending(state) == [state EXCEPT !.isLoading = TRUE, !.error = NULL]

fetchMetadata_fulfilled(state, payload) ==
    [state EXCEPT !.isLoading = FALSE, !.metadata = payload]

fetchMetadata_rejected(state, errorMsg) ==
    [state EXCEPT !.isLoading = FALSE, !.error = errorMsg]

fetchInitialData_pending(state) ==
    [state EXCEPT !.isLoading = TRUE, !.error = NULL, !.currentQueryId = @ + 1]

\* a fulfilled reducer that keeps the old buffer in front of the received rows
fetchInitialData_fulfilledAppend(state, payload) ==
    LET s1 == [state EXCEPT !.isLoading = FALSE,
                            !.needsDataRefresh = FALSE,
                            !.allColumns = payload.columns,
                            !.allColumnTypes = payload.columnTypes,
                            !.allData = @ \o payload.data,
                            !.totalRows = payload.totalRows]
        s2 == Reproject(s1)
    IN [s2 EXCEPT !.loadedRanges = <<Range(0, Len(payload.data))>>]

fetchInitialData_fulfilled(state, payload) ==
    LET s1 == [state EXCEPT !.isLoading = FALSE,
                            !.needsDataRefresh = FALSE,
                            !.allColumns = payload.columns,
                            !.allColumnTypes = payload.columnTypes,
                            !.allData = payload.data,
                            !.totalRows = payload.totalRows]
        s2 == Reproject(s1)
    IN [s2 EXCEPT !.loadedRanges = <<Range(0, Len(payload.data))>>]

\* a rejected reducer that reports every rejection, cancelled or not
fetchInitialData_rejectedAlways(state, errorMsg) ==
    [state EXCEPT !.isLoading = FALSE, !.needsDataRefresh = FALSE, !.error = errorMsg]

fetchInitialData_rejected(state, errorMsg) ==
    LET s1 == [state EXCEPT !.isLoading = FALSE, !.needsDataRefresh = FALSE]
    IN IF errorMsg # RequestCancelled
       THEN [s1 EXCEPT !.error = IF errorMsg = Undefined
                                  THEN "Failed to fetch data" ELSE errorMsg]
       ELSE s1

fetchDataRange_pending(state, arg) ==
    IF arg.isPrefetch THEN [state EXCEPT !.isPrefetching = TRUE]
    ELSE [state EXCEPT !.isLoading = TRUE]

\* eviction that trims the tail instead of the head
EvictTail(state) ==
    IF Len(state.allData) > MAX_CACHED_ROWS
    THEN LET s1 == [state EXCEPT !.allData = SubSeq(@, 1, MAX_CACHED_ROWS)]
             filtered == filterVisibleData(s1.allColumns, s1.allData,
                                           s1.selectedDimensions, s1.selectedMetrics)
         IN [s1 EXCEPT !.data = filtered.visibleData]
    ELSE state

\* "Evict old data if cache too large", lines 470-491
Evict(state) ==
    IF Len(state.allData) > MAX_CACHED_ROWS
    THEN LET excessRows == Len(state.allData) - MAX_CACHED_ROWS
             s1 == [state EXCEPT !.allData = SliceFrom(@, excessRows)]
             filtered == filterVisibleData(s1.allColumns, s1.allData,
                                           s1.selectedDimensions, s1.selectedMetrics)
         IN [s1 EXCEPT !.data = filtered.visibleData,
                       !.loadedRanges = ShiftRanges(@, excessRows)]
    ELSE state

\* a fulfilled reducer that evicts before it records the new range
fetchDataRange_fulfilledEvictFirst(state, payload) ==
    IF payload.isNull THEN [state EXCEPT !.isPrefetching = FALSE]
    ELSE LET s1 == IF payload.isPrefetch
                   THEN [state EXCEPT !.isPrefetching = FALSE]
                   ELSE [state EXCEPT !.isLoading = FALSE]
             newData == payload.data
             offset == payload.offset
             s2 == Evict(Reproject([s1 EXCEPT !.allData = @ \o newData]))
         IN [s2 EXCEPT !.loadedRanges =
                            mergeRanges(Append(@, Range(offset, offset + Len(newData)))),
                       !.totalRows = payload.totalRows]

\* a fulfilled reducer that replaces the buffer by the new rows
fetchDataRange_fulfilledReplace(state, payload) ==
    IF payload.isNull THEN [state EXCEPT !.isPrefetching = FALSE]
    ELSE LET s1 == IF payload.isPrefetch
                   THEN [state EXCEPT !.isPrefetching = FALSE]
                   ELSE [state EXCEPT !.isLoading = FALSE]
             s2 == Reproject([s1 EXCEPT !.allData = payload.data])
         IN [s2 EXCEPT !.loadedRanges =
                 <<Range(payload.offset, payload.offset + Len(payload.data))>>,
                       !.totalRows = payload.totalRows]

fetchDataRange_fulfilled(state, payload) ==
    IF payload.isNull THEN [state EXCEPT !.isPrefetching = FALSE]
    ELSE LET s1 == IF payload.isPrefetch
                   THEN [state EXCEPT !.isPrefetching = FALSE]
                   ELSE [state EXCEPT !.isLoading = FALSE]
             newData == payload.data
             offset == payload.offset
             s2 == Reproject([s1 EXCEPT !.allData = @ \o newData])
             s3 == [s2 EXCEPT !.loadedRanges =
                        mergeRanges(Append(@, Range(offset, offset + Len(newData)))),
                              !.totalRows = payload.totalRows]
         IN Evict(s3)

\* a rejected reducer that reports real failures as fetchInitialData's does
fetchDataRange_rejectedReports(state, errorMsg) ==
    LET s1 == [state EXCEPT !.isPrefetching = FALSE, !.isLoading = FALSE]
    IN IF errorMsg # RequestCancelled THEN [s1 EXCEPT !.error = errorMsg] ELSE s1

fetchDataRange_rejected(state, errorMsg) ==
    [state EXCEPT !.isPrefetching = FALSE, !.isLoading = FALSE]

(***************************************************************************)
(* The data service (part_001): one AbortController per scope.  A request  *)
(* record keeps what its thunk was called with and how far it has got:     *)
(*   inflight  - sent, the network has not answered                        *)
(*   aborted   - its controller was aborted, the rejection is queued        *)
(*   skip      - the payload creator returned null, the fulfilment is queued*)
(*   fulfilled / skipped / cancelled / failed - its reducer has run         *)
(***************************************************************************)
Scopes == {"initialQueryController", "prefetchController", "searchController"}

Queued == {"aborted", "skip"}
Settled == {"fulfilled", "skipped", "cancelled", "failed"}

NoRequest == [dimensions |-> <<>>, metrics |-> <<>>, filters |-> <<>>,
              sort |-> <<>>, offset |-> 0, limit |-> 0, search |-> "",
              comparison |-> NULL]

\* alone: no data request was in flight when this one was dispatched
NewReq(thunk, isPrefetch, offset, limit, request, scope, status) ==
    [thunk |-> thunk, isPrefetch |-> isPrefetch, offset |-> offset, limit |-> limit,
     request |-> request, scope |-> scope, status |-> status,
     alone |-> \A i \in 1..Len(reqs) :
                  reqs[i].thunk = "search" \/ reqs[i].status # "inflight"]

\* the scope every raw query shares
QueryRawScopeShared(isPrefetch) == "initialQueryController"

\* queryRaw picks its controller by request type, lines 38 and 58
QueryRawScope(isPrefetch) ==
    IF isPrefetch THEN "prefetchController" ELSE "initialQueryController"

\* an abort that leaves the guarded request in flight
AbortRequestIgnored(rs, id) == rs

\* controller.abort(): rejects the request it guards if it is still in flight
AbortRequest(rs, id) ==
    IF id # 0 /\ rs[id].status = "inflight"
    THEN [rs EXCEPT ![id].status = "aborted"]
    ELSE rs

\* a settled request that left no rows keeps only its thunk, scope and outcome
Settle(rs, id, status) ==
    [rs EXCEPT ![id] = [thunk |-> @.thunk, isPrefetch |-> @.isPrefetch, offset |-> 0,
                        limit |-> 0, request |-> NoRequest, scope |-> @.scope,
                        status |-> status, alone |-> @.alone]]

\* microtasks run before the next task
MicrotaskQueued == \E i \in 1..Len(reqs) : reqs[i].status \in Queued

\* DataGrid renders only the loading container until the metadata is there
\* (DataGrid.tsx lines 349-362): no toolbar, no table, no search bar; the refresh
\* effect waits for it too (line 263).  The thunks' "Metadata not loaded" throw
\* (lines 166-168, 203-205) is therefore never reached.
UiReady == dataGrid.metadata.loaded

\* the requests so far are an initial load and load-more fetches, each dispatched
\* at the end of a buffer of full batches, all answered
SequentialLoads ==
    /\ Len(reqs) >= 1
    /\ reqs[1].thunk = "fetchInitialData"
    /\ \A i \in 1..Len(reqs) :
          /\ reqs[i].status = "fulfilled"
          /\ i > 1 => /\ reqs[i].thunk = "fetchDataRange" /\ ~reqs[i].isPrefetch
                      /\ reqs[i].offset = Min((i - 1) * BATCH_SIZE, MAX_CACHED_ROWS)

\* a new request fits the model's budget: MaxRequests requests of any kind, or
\* MaxSequentialLoads when they form a run of answered sequential loads
CanStart ==
    /\ ~MicrotaskQueued
    /\ \/ Len(reqs) < MaxRequests
       \/ SequentialLoads /\ Len(reqs) < MaxSequentialLoads

Op(name, id) == [op |-> name, id |-> id]

\* cancel the scope's previous request, install a new controller, send
SendOnScope(scope, req) ==
    /\ reqs' = Append(AbortRequest(reqs, controllers[scope]), req)
    /\ controllers' = [controllers EXCEPT ![scope] = Len(reqs) + 1]

\* a thunk that settles without calling the service
SettleWithoutSend(req) ==
    /\ reqs' = Append(reqs, req)
    /\ UNCHANGED controllers

(***************************************************************************)
(* Inputs                                                                  *)
(***************************************************************************)
Offsets == {0, BATCH_SIZE, BATCH_SIZE + 1}
\* every caller passes BATCH_SIZE or leaves the default, line 207
Limits == {BATCH_SIZE}
ServerTotals == {0, MAX_CACHED_ROWS, MaxServerRows}
DimensionLists == {<<"category">>, <<"master_brand_id", "category">>}
MetricLists == {<<>>, <<"ads_sale", "ads_spend">>}
FilterLists == {<<>>} \cup {<<f>> : f \in FilterValues}

Init ==
    /\ dataGrid = initialState
    /\ controllers = [c \in Scopes |-> 0]
    /\ reqs = <<>>
    /\ metadataFetch = "idle"
    /\ serverTotal \in ServerTotals
    /\ nUserOps = 0
    /\ lastOp = Op("init", 0)
    /\ rtRanges = <<>>
    /\ rtAdded = <<>>
    /\ rtPrev = <<>>
    /\ viewport = InitialViewport(1, 1, 0, 0)
    /\ rowSpan = NoRowSpan
    /\ table = Unmounted
    /\ refreshDeps = NoDeps
    /\ searchBar = InitialSearchBar

(***************************************************************************)
(* Thunk dispatches: the pending reducer and the payload creator up to its *)
(* first await run in the dispatching task.                                *)
(***************************************************************************)
\* DataGrid's mount effect, DataGrid.tsx lines 256-259, and lines 362-365
FetchMetadata ==
    /\ metadataFetch = "idle"
    /\ metadataFetch' = "inflight"
    /\ dataGrid' = fetchMetadata_pending(dataGrid)
    /\ lastOp' = Op("fetchMetadata", 0)
    /\ UNCHANGED <<controllers, reqs, serverTotal, nUserOps, rtVars, uiVars>>

\* lines 366-369
FetchMetadataFulfilled ==
    /\ metadataFetch = "inflight"
    /\ metadataFetch' = "fulfilled"
    /\ dataGrid' = fetchMetadata_fulfilled(dataGrid, Metadata)
    /\ lastOp' = Op("fetchMetadata.fulfilled", 0)
    /\ UNCHANGED <<controllers, reqs, serverTotal, nUserOps, rtVars, uiVars>>

\* lines 370-373
FetchMetadataRejected ==
    /\ metadataFetch = "inflight"
    /\ metadataFetch' = "rejected"
    /\ dataGrid' = fetchMetadata_rejected(dataGrid, NetworkError)
    /\ lastOp' = Op("fetchMetadata.rejected", 0)
    /\ UNCHANGED <<controllers, reqs, serverTotal, nUserOps, rtVars, uiVars>>

\* part_009 lines 160-192 with the pending reducer, lines 376-380
\* the thunk's effect on the store and the service
fetchInitialDataThunk(opName) ==
    /\ CanStart
    /\ UiReady
    /\ dataGrid' = fetchInitialData_pending(dataGrid)
    /\ SendOnScope(QueryRawScope(FALSE),
            NewReq("fetchInitialData", FALSE, 0, BATCH_SIZE,
                   QueryRequest(dataGrid, 0, BATCH_SIZE),
                   QueryRawScope(FALSE), "inflight"))
    /\ lastOp' = Op(opName, Len(reqs) + 1)
    /\ UNCHANGED <<metadataFetch, serverTotal, nUserOps>>

FetchInitialData ==
    /\ fetchInitialDataThunk("fetchInitialData")
    /\ UNCHANGED <<rtVars, uiVars>>

\* the early return that never skips
SkipIfLoadedNever(ranges, offset, limit) == FALSE

\* "Skip if already loaded", lines 209-213
SkipIfLoaded(ranges, offset, limit) == isRangeLoaded(ranges, offset, limit)

\* part_009 lines 197-238 with the pending reducer, lines 423-429
\* the thunk's effect on the store and the service
fetchDataRangeThunk(offset, limit, isPrefetch, opName) ==
    /\ CanStart
    /\ UiReady
    /\ dataGrid' = fetchDataRange_pending(dataGrid, [isPrefetch |-> isPrefetch])
    /\ IF SkipIfLoaded(dataGrid.loadedRanges, offset, limit)
       THEN SettleWithoutSend(NewReq("fetchDataRange", isPrefetch, offset, limit,
                                     NoRequest, "none", "skip"))
       ELSE SendOnScope(QueryRawScope(isPrefetch),
                NewReq("fetchDataRange", isPrefetch, offset, limit,
                       QueryRequest(dataGrid, offset, limit),
                       QueryRawScope(isPrefetch), "inflight"))
    /\ lastOp' = Op(opName, Len(reqs) + 1)
    /\ UNCHANGED <<metadataFetch, serverTotal, nUserOps>>

fetchDataRange(offset, limit, isPrefetch, opName) ==
    /\ fetchDataRangeThunk(offset, limit, isPrefetch, opName)
    /\ UNCHANGED <<rtVars, uiVars>>

FetchDataRange ==
    \E offset \in Offsets, limit \in Limits, isPrefetch \in BOOLEAN :
        fetchDataRange(offset, limit, isPrefetch, "fetchDataRange")

\* guards of handleLoadMore without the test against totalRows
LoadMoreAllowedNoTotal(state) == ~(state.isLoading \/ state.isPrefetching)

\* the guards of handleLoadMore, DataGrid.tsx lines 321-324
LoadMoreAllowed(state) ==
    /\ ~(state.isLoading \/ state.isPrefetching)
    /\ Len(state.allData) < state.totalRows

\* DataGrid.tsx lines 320-328
handleLoadMore ==
    IF LoadMoreAllowed(dataGrid)
    THEN fetchDataRangeThunk(Len(dataGrid.allData), BATCH_SIZE, FALSE, "loadMore")
    ELSE /\ ~MicrotaskQueued
         /\ UiReady
         /\ lastOp' = Op("loadMore", 0)
         /\ UNCHANGED <<dataGrid, controllers, reqs, metadataFetch, serverTotal, nUserOps>>

HandleLoadMore ==
    /\ handleLoadMore
    /\ UNCHANGED <<rtVars, uiVars>>

\* dataService.search, part_001 lines 155-174, called by SearchBar.performSearch
PerformSearch ==
    /\ CanStart
    /\ UiReady
    /\ SendOnScope("searchController",
            NewReq("search", FALSE, 0, 0, NoRequest, "searchController", "inflight"))
    /\ lastOp' = Op("search", Len(reqs) + 1)
    /\ UNCHANGED <<dataGrid, metadataFetch, serverTotal, nUserOps, rtVars, uiVars>>

(***************************************************************************)
(* Settlements                                                             *)
(***************************************************************************)
\* a rejection that resets the buffer
RejectedDropsRows(state, req, errorMsg) ==
    ResetData([state EXCEPT !.isLoading = FALSE, !.isPrefetching = FALSE])

Rejected(state, req, errorMsg) ==
    CASE req.thunk = "fetchInitialData" -> fetchInitialData_rejected(state, errorMsg)
      [] req.thunk = "fetchDataRange"   -> fetchDataRange_rejected(state, errorMsg)
      [] OTHER                          -> state

\* the null a skipped fetchDataRange resolves with
NullPayload == [isNull |-> TRUE]

RangePayload(req) ==
    LET r == Response(req.request, serverTotal)
    IN [isNull |-> FALSE, columns |-> r.columns, columnTypes |-> r.columnTypes, data |-> r.data,
        totalRows |-> r.totalRows, offset |-> req.offset, isPrefetch |-> req.isPrefetch]

Fulfilled(state, req) ==
    CASE req.thunk = "fetchInitialData" ->
            fetchInitialData_fulfilled(state, Response(req.request, serverTotal))
      [] req.thunk = "fetchDataRange"   -> fetchDataRange_fulfilled(state, RangePayload(req))
      [] OTHER                          -> state

\* the catch blocks of queryRaw, lines 52-57 and 72-77, then the rejected reducer
DeliverCancelled(id) ==
    /\ reqs[id].status = "aborted"
    /\ dataGrid' = Rejected(dataGrid, reqs[id], RequestCancelled)
    /\ reqs' = Settle(reqs, id, "cancelled")
    /\ lastOp' = Op("cancelled", id)
    /\ UNCHANGED <<controllers, metadataFetch, serverTotal, nUserOps, rtVars, uiVars>>

\* the return null of line 212, then the fulfilled reducer, lines 431-434
DeliverNull(id) ==
    /\ reqs[id].status = "skip"
    /\ dataGrid' = fetchDataRange_fulfilled(dataGrid, NullPayload)
    /\ reqs' = Settle(reqs, id, "skipped")
    /\ lastOp' = Op("fulfilled", id)
    /\ UNCHANGED <<controllers, metadataFetch, serverTotal, nUserOps, rtVars, uiVars>>

\* the network answers with a response
RespondOK(id) ==
    /\ ~MicrotaskQueued
    /\ reqs[id].status = "inflight"
    /\ dataGrid' = Fulfilled(dataGrid, reqs[id])
    /\ reqs' = [reqs EXCEPT ![id].status = "fulfilled"]
    /\ lastOp' = Op("fulfilled", id)
    /\ UNCHANGED <<controllers, metadataFetch, serverTotal, nUserOps, rtVars, uiVars>>

\* the network answers with a failure
RespondError(id) ==
    /\ ~MicrotaskQueued
    /\ reqs[id].status = "inflight"
    /\ \E errorMsg \in ErrorMessages : dataGrid' = Rejected(dataGrid, reqs[id], errorMsg)
    /\ reqs' = Settle(reqs, id, "failed")
    /\ lastOp' = Op("rejected", id)
    /\ UNCHANGED <<controllers, metadataFetch, serverTotal, nUserOps, rtVars, uiVars>>

Microtask == \E id \in 1..Len(reqs) :
    DeliverCancelled(id) \/ DeliverNull(id)

Network == \E id \in 1..Len(reqs) : RespondOK(id) \/ RespondError(id)

(***************************************************************************)
(* Synchronous reducer dispatches                                          *)
(***************************************************************************)
\* store.dispatch of a plain action
Dispatch(next) ==
    /\ ~MicrotaskQueued
    /\ UiReady
    /\ Len(reqs) + nUserOps < MaxUiEvents
    /\ dataGrid' = next
    /\ nUserOps' = nUserOps + 1
    /\ lastOp' = Op("dispatch", 0)
    /\ UNCHANGED <<controllers, reqs, metadataFetch, serverTotal, rtVars, uiVars>>

SetSelectedDimensions ==
    \E p \in DimensionLists : Dispatch(setSelectedDimensions(dataGrid, p))
AddDimension ==
    \E d \in Dimensions : Dispatch(addDimension(dataGrid, d))
RemoveDimension ==
    \E d \in Dimensions : Dispatch(removeDimension(dataGrid, d))
SetSelectedMetrics ==
    \E p \in MetricLists : Dispatch(setSelectedMetrics(dataGrid, p))
ToggleMetric ==
    \E m \in RangeOfSeq(AllMetricNames) : Dispatch(toggleMetric(dataGrid, m))
SetFilters ==
    \E p \in FilterLists : Dispatch(setFilters(dataGrid, p))
AddFilter ==
    \E f \in FilterValues :
        /\ Len(dataGrid.filters) < 1
        /\ Dispatch(addFilter(dataGrid, f))
RemoveFilter ==
    \E i \in 0..0 : Dispatch(removeFilter(dataGrid, i))
SetSort ==
    \E p \in Sorts : Dispatch(setSort(dataGrid, p))
SetSearchText ==
    \E t \in SearchTexts : Dispatch(setSearchText(dataGrid, t))
SetComparison ==
    \E c \in Comparisons : Dispatch(setComparison(dataGrid, c))
ClearError == Dispatch(clearError(dataGrid))
MarkRefreshComplete == Dispatch(markRefreshComplete(dataGrid))

Next ==
    \/ FetchMetadata
    \/ FetchMetadataFulfilled
    \/ FetchMetadataRejected
    \/ FetchInitialData
    \/ FetchDataRange
    \/ HandleLoadMore
    \/ PerformSearch
    \/ Microtask
    \/ Network

\* the thunks and their settlements, no plain actions dispatched
Spec == Init /\ [][Next]_vars

(***************************************************************************)
(* The store with its plain reducers: thunk dispatches and plain           *)
(* dispatches share one budget of events.                                  *)
(***************************************************************************)
UiBudget == Len(reqs) + nUserOps < MaxUiEvents

UiFetchInitialData == UiBudget /\ FetchInitialData
UiFetchDataRange == UiBudget /\ FetchDataRange
UiHandleLoadMore == (LoadMoreAllowed(dataGrid) => UiBudget) /\ HandleLoadMore

NextUI ==
    \/ FetchMetadata
    \/ FetchMetadataFulfilled
    \/ FetchMetadataRejected
    \/ UiFetchInitialData
    \/ UiFetchDataRange
    \/ UiHandleLoadMore
    \/ Microtask
    \/ Network
    \/ SetSelectedDimensions
    \/ AddDimension
    \/ RemoveDimension
    \/ SetSelectedMetrics
    \/ ToggleMetric
    \/ SetFilters
    \/ AddFilter
    \/ RemoveFilter
    \/ SetSort
    \/ SetSearchText
    \/ SetComparison
    \/ ClearError
    \/ MarkRefreshComplete

SpecUI == Init /\ [][NextUI]_vars

(***************************************************************************)
(* The RangeTracker alone: a sequence of additions, each a push followed   *)
(* by mergeRanges (part_009 lines 463-465).                                *)
(***************************************************************************)
RtAdd ==
    \E start \in 0..MaxRangePos :
        \E end \in start..MaxRangePos :
            /\ Len(rtAdded) < MaxAdds
            /\ rtPrev' = rtRanges
            /\ rtRanges' = mergeRanges(Append(rtRanges, Range(start, end)))
            /\ rtAdded' = Append(rtAdded, Range(start, end))
            /\ UNCHANGED <<storeVars, uiVars>>

NextRanges == RtAdd

SpecRanges == Init /\ [][NextRanges]_vars

(***************************************************************************)
(* The range adjustment alone: the tracked set built by additions is       *)
(* shifted by the number of evicted rows (part_009 lines 471 and 485-488). *)
(* Additions after a shift produce merged sets that additions alone also   *)
(* produce, and a shift of a merged set leaves a merged set, so the        *)
(* additions come first and one shift follows.                             *)
(***************************************************************************)
RtShift ==
    \E excessRows \in 0..(MaxRangePos + 1) :
        /\ Len(rtRanges) > 0
        /\ rtPrev' = rtRanges
        /\ rtRanges' = ShiftRanges(rtRanges, excessRows)
        /\ rtAdded' = <<>>
        /\ lastOp' = Op("shiftRanges", excessRows)
        /\ UNCHANGED <<dataGrid, controllers, reqs, metadataFetch, serverTotal,
                       nUserOps, uiVars>>

NextShift ==
    \/ lastOp.op = "init" /\ RtAdd
    \/ lastOp.op = "init" /\ RtShift

SpecShift == Init /\ [][NextShift]_vars

(***************************************************************************)
(* The windowing engine alone: scroll events, animation frames and a row   *)
(* buffer that grows, is trimmed or is reset under the mounted hook.       *)
(***************************************************************************)
\* where the browser can scroll to: the spacer has totalHeight pixels
MaxScrollTop(v) == Max(0, TotalHeight(v) - v.containerHeight)

\* the idle store next to a viewport
IdleStore ==
    /\ dataGrid = initialState
    /\ controllers = [c \in Scopes |-> 0]
    /\ reqs = <<>>
    /\ metadataFetch = "idle"
    /\ serverTotal = 0
    /\ nUserOps = 0
    /\ lastOp = Op("init", 0)
    /\ rtRanges = <<>>
    /\ rtAdded = <<>>
    /\ rtPrev = <<>>

\* the hook is given the table's height less header and status bar
\* (VirtualTable.tsx line 301), which is zero for a table of just that height
InitScroll ==
    /\ IdleStore
    /\ rowSpan = NoRowSpan
    /\ table = Unmounted
    /\ refreshDeps = NoDeps
    /\ searchBar = InitialSearchBar
    /\ \E containerHeight \in 0..MaxContainerHeight,
          rowHeight \in 1..MaxRowHeight,
          totalRows \in 0..MaxBufferRows, overscan \in 0..MaxOverscan :
            viewport = InitialViewport(containerHeight, rowHeight, totalRows, overscan)

\* handleScroll, lines 52-60: the first event of a frame schedules the callback
\* with its own value; events that find tickingRef set are dropped
handleScroll(v, newScrollTop) ==
    IF ~v.tickingRef
    THEN [v EXCEPT !.tickingRef = TRUE, !.frame = newScrollTop, !.lastEvent = newScrollTop]
    ELSE [v EXCEPT !.lastEvent = newScrollTop]

ScrollEvent ==
    \E newScrollTop \in 0..MaxScrollTop(viewport) :
        /\ viewport' = handleScroll(viewport, newScrollTop)
        /\ UNCHANGED <<storeVars, rtVars, rowSpan, table, refreshDeps, searchBar>>

\* the requestAnimationFrame callback, lines 55-58
AnimationFrame ==
    /\ viewport.frame # NoFrame
    /\ viewport' = [viewport EXCEPT !.scrollTop = viewport.frame,
                                    !.tickingRef = FALSE,
                                    !.frame = NoFrame]
    /\ UNCHANGED <<storeVars, rtVars, rowSpan, table, refreshDeps, searchBar>>

\* a render with another data.length: the buffer grew, was trimmed or was reset
SetTotalRows ==
    \E totalRows \in 0..MaxBufferRows :
        /\ totalRows # viewport.totalRows
        /\ viewport' = [viewport EXCEPT !.totalRows = totalRows]
        /\ UNCHANGED <<storeVars, rtVars, rowSpan, table, refreshDeps, searchBar>>

NextScroll ==
    \/ ScrollEvent
    \/ AnimationFrame
    \/ SetTotalRows

SpecScroll == InitScroll /\ [][NextScroll]_vars

(***************************************************************************)
(* Row grouping alone: a buffer of rows that grows and is reset under the  *)
(* column layouts below.                                                   *)
(***************************************************************************)
CellValues == {"A", NULL}

\* the layouts: two groupable columns; the second one a metric; a column
\* outside SPANNING_COLUMNS to the left; the same with the listed name in a
\* metric position, so that no column is groupable; three groupable columns
ColumnLayouts ==
    {[columnNames |-> <<"Category", "sub_category">>, dimensionCount |-> 2],
     [columnNames |-> <<"category", "sub_category">>, dimensionCount |-> 1],
     [columnNames |-> <<"master_brand_id", "category">>, dimensionCount |-> 2],
     [columnNames |-> <<"master_brand_id", "category">>, dimensionCount |-> 1],
     [columnNames |-> <<"principal_category", "category", "sub_category">>, dimensionCount |-> 3]}

RowsOfWidth(n) == [1..n -> CellValues]

InitSpans ==
    /\ IdleStore
    /\ viewport = InitialViewport(1, 1, 0, 0)
    /\ table = Unmounted
    /\ refreshDeps = NoDeps
    /\ searchBar = InitialSearchBar
    /\ \E layout \in ColumnLayouts :
          rowSpan = [data |-> <<>>, columnNames |-> layout.columnNames,
                     dimensionCount |-> layout.dimensionCount]

\* a render with one more row in data
SpanAppendRow ==
    \E row \in RowsOfWidth(Len(rowSpan.columnNames)) :
        /\ Len(rowSpan.data) < MaxSpanRows
        /\ rowSpan' = [rowSpan EXCEPT !.data = Append(@, row)]
        /\ UNCHANGED <<storeVars, rtVars, viewport, table, refreshDeps, searchBar>>

\* a render with an empty data
SpanReset ==
    /\ Len(rowSpan.data) > 0
    /\ rowSpan' = [rowSpan EXCEPT !.data = <<>>]
    /\ UNCHANGED <<storeVars, rtVars, viewport, table, refreshDeps, searchBar>>

NextSpans ==
    \/ SpanAppendRow
    \/ SpanReset

SpecSpans == InitSpans /\ [][NextSpans]_vars

(***************************************************************************)
(* The table under the store: VirtualTable's scroll handler with its       *)
(* loadMoreTriggeredRef (VirtualTable.tsx lines 267, 312-365) calling      *)
(* DataGrid's handleLoadMore.  A render and its effects run before the     *)
(* next event is handled.                                                  *)
(***************************************************************************)
\* DataGrid renders VirtualTable unless it shows the loading container,
\* DataGrid.tsx lines 349-362
TableShown ==
    UiReady /\ ~(dataGrid.isLoading /\ Len(dataGrid.data) = 0)

\* the table after the render of the current store state: a mount starts with
\* a fresh ref; the effect of lines 312-315 runs on mount and whenever
\* data.length differs from the one it saw last
RenderedTable ==
    LET epoch == IF table.epoch.length = Len(dataGrid.data)
                 THEN table.epoch
                 ELSE [length |-> Len(dataGrid.data), calls |-> 0]
    IN IF ~TableShown
       THEN [Unmounted EXCEPT !.epoch = epoch]
       ELSE IF ~table.mounted \/ table.dataLength # Len(dataGrid.data)
            THEN [mounted |-> TRUE, loadMoreTriggeredRef |-> FALSE,
                  dataLength |-> Len(dataGrid.data), event |-> NoScroll,
                  epoch |-> epoch]
            ELSE [table EXCEPT !.epoch = epoch]

Rendered == table = RenderedTable

\* a render follows the task that changed the store, microtasks included
TableRender ==
    /\ ~MicrotaskQueued
    /\ ~Rendered
    /\ table' = RenderedTable
    /\ UNCHANGED <<storeVars, rtVars, viewport, rowSpan, refreshDeps, searchBar>>

\* the guards without the ref
TriggerAllowedIgnoringRef(state, t) ==
    /\ selectHasMoreData(state)
    /\ ~state.isPrefetching
    /\ ~(state.isLoading /\ Len(state.data) > 0)

\* the guards both triggers of handleScroll share, lines 337-342 and 355-360;
\* isLoadingMore is isPrefetching, isLoading is isLoading && data.length > 0
\* (DataGrid.tsx lines 406-408)
TriggerAllowed(state, t) ==
    /\ selectHasMoreData(state)
    /\ ~state.isPrefetching
    /\ ~(state.isLoading /\ Len(state.data) > 0)
    /\ ~t.loadMoreTriggeredRef

\* handleScroll, lines 318-365.  atProgress: scrollProgress >= 0.7 at the
\* event's position; nearBottom: distanceFromBottom < 500.  The two blocks run
\* one after the other on the props of the last render; the second reads the
\* ref the first may have set.  onLoadMore is DataGrid's handleLoadMore.
TableScroll ==
    \E atProgress, nearBottom \in BOOLEAN :
        LET first == atProgress /\ TriggerAllowed(dataGrid, table)
            t1 == IF first THEN [table EXCEPT !.loadMoreTriggeredRef = TRUE] ELSE table
            second == nearBottom /\ TriggerAllowed(dataGrid, t1)
            t2 == IF second THEN [t1 EXCEPT !.loadMoreTriggeredRef = TRUE] ELSE t1
            calls == (IF first THEN 1 ELSE 0) + (IF second THEN 1 ELSE 0)
        IN /\ table.mounted
           /\ Rendered
           /\ ~MicrotaskQueued
           /\ Len(reqs) < MaxRequests
           /\ table' = [t2 EXCEPT !.event = [atProgress |-> atProgress,
                                             nearBottom |-> nearBottom,
                                             calls |-> calls],
                                  !.epoch.calls = @ + calls]
           /\ IF calls > 0
              THEN handleLoadMore
              ELSE /\ lastOp' = Op("scroll", IF atProgress \/ nearBottom THEN 1 ELSE 0)
                   /\ UNCHANGED <<dataGrid, controllers, reqs, metadataFetch,
                                  serverTotal, nUserOps>>
           /\ UNCHANGED <<rtVars, viewport, rowSpan, refreshDeps, searchBar>>

\* the refresh effect, DataGrid.tsx lines 262-267: runs after the first render
\* and after every render in which one of its dependencies has changed
RefreshEffect ==
    /\ ~MicrotaskQueued
    /\ refreshDeps # RefreshDeps(dataGrid)
    /\ refreshDeps' = RefreshDeps(dataGrid)
    /\ IF RefreshCondition(dataGrid)
       THEN fetchInitialDataThunk("refreshEffect")
       ELSE UNCHANGED storeVars
    /\ UNCHANGED <<rtVars, viewport, rowSpan, table, searchBar>>

\* render and effects of the last store change are done
Quiet == Rendered /\ refreshDeps = RefreshDeps(dataGrid)

\* the Retry button of the error banner, DataGrid.tsx lines 387-392
Retry ==
    /\ TableShown
    /\ dataGrid.error # NULL
    /\ fetchInitialDataThunk("retry")
    /\ UNCHANGED <<rtVars, uiVars>>

\* a dispatch from one of the component's callbacks
TableDispatch(next) ==
    /\ ~MicrotaskQueued
    /\ nUserOps < MaxTableEvents
    /\ dataGrid' = next
    /\ nUserOps' = nUserOps + 1
    /\ lastOp' = Op("dispatch", 0)
    /\ UNCHANGED <<controllers, reqs, metadataFetch, serverTotal, rtVars, uiVars>>

\* handleSort, DataGrid.tsx lines 310-316: a click on a header of the mounted
\* table (onSort, line 403)
HandleSort ==
    /\ table.mounted
    /\ \E p \in Sorts : TableDispatch(setSort(dataGrid, p))

\* handleDrillDownApply, DataGrid.tsx lines 335-341: the selector, rendered
\* below the table (lines 414-425), applies another selection
HandleDrillDownApply ==
    /\ TableShown
    /\ \E p \in DimensionLists :
          /\ p # dataGrid.selectedDimensions
          /\ TableDispatch(setSelectedDimensions(dataGrid, p))

NextTable ==
    \/ TableRender
    \/ RefreshEffect
    \/ Quiet /\ TableScroll
    \/ Quiet /\ Retry
    \/ Quiet /\ HandleSort
    \/ Quiet /\ HandleDrillDownApply
    \/ Quiet /\ FetchMetadata
    \/ Quiet /\ FetchMetadataFulfilled
    \/ Quiet /\ FetchMetadataRejected
    \/ Microtask
    \/ Quiet /\ Network

SpecTable == Init /\ [][NextTable]_vars

(***************************************************************************)
(* The search bar alone: performSearch calls and the settlements of the    *)
(* requests it sends, next to a store whose metadata is loaded.            *)
(***************************************************************************)
\* what the user has typed when the debounce timer fires, as characters
SearchQueries == {<<"a">>, <<"a", "b">>, <<"z", "z">>}

\* response.results of /api/data/search: "ab" matches a value, "zz" none
SearchResults(query) == IF query = <<"a", "b">> THEN <<query>> ELSE <<>>

InitSearch ==
    /\ dataGrid = fetchMetadata_fulfilled(initialState, Metadata)
    /\ controllers = [c \in Scopes |-> 0]
    /\ reqs = <<>>
    /\ metadataFetch = "fulfilled"
    /\ serverTotal = 0
    /\ nUserOps = 0
    /\ lastOp = Op("init", 0)
    /\ rtRanges = <<>>
    /\ rtAdded = <<>>
    /\ rtPrev = <<>>
    /\ viewport = InitialViewport(1, 1, 0, 0)
    /\ rowSpan = NoRowSpan
    /\ table = Unmounted
    /\ refreshDeps = NoDeps
    /\ searchBar = InitialSearchBar

\* performSearch up to its await, SearchBar.tsx lines 52-61, with
\* dataService.search up to api.post, part_001 lines 160-164
performSearch ==
    \E searchQuery \in SearchQueries :
        /\ ~MicrotaskQueued
        /\ IF Len(searchQuery) < 2
           THEN /\ searchBar' = [searchBar EXCEPT !.results = <<>>, !.showDropdown = FALSE]
                /\ lastOp' = Op("search", 0)
                /\ UNCHANGED <<controllers, reqs>>
           ELSE /\ CanStart
                /\ searchBar' = [searchBar EXCEPT !.isLoading = TRUE, !.sent = searchQuery]
                /\ SendOnScope("searchController",
                        NewReq("search", FALSE, 0, 0, NoRequest, "searchController",
                               "inflight"))
                /\ lastOp' = Op("search", Len(reqs) + 1)
        /\ UNCHANGED <<dataGrid, metadataFetch, serverTotal, nUserOps, rtVars, viewport,
                       rowSpan, table, refreshDeps>>

\* the response arrives: lines 61-63 and the finally of lines 67-69
SearchResolved ==
    \E id \in 1..Len(reqs) :
        /\ ~MicrotaskQueued
        /\ reqs[id].status = "inflight"
        /\ searchBar' = [searchBar EXCEPT !.results = SearchResults(searchBar.sent),
                                          !.showDropdown = Len(SearchResults(searchBar.sent)) > 0,
                                          !.isLoading = FALSE]
        /\ reqs' = [reqs EXCEPT ![id].status = "fulfilled"]
        /\ lastOp' = Op("fulfilled", id)
        /\ UNCHANGED <<dataGrid, controllers, metadataFetch, serverTotal, nUserOps, rtVars,
                       viewport, rowSpan, table, refreshDeps>>

\* the catch of lines 64-66 and the finally: dataService.search rethrows
\* whatever api.post rejects with, the cancellation of an aborted request
\* (queued as a microtask) as well as a failure of the network
SearchCaught ==
    \E id \in 1..Len(reqs) :
        /\ \/ reqs[id].status = "aborted"
           \/ reqs[id].status = "inflight" /\ ~MicrotaskQueued
        /\ searchBar' = [searchBar EXCEPT !.results = <<>>,
                                          !.isLoading = FALSE,
                                          !.errors = @ + 1]
        /\ reqs' = Settle(reqs, id, IF reqs[id].status = "aborted"
                                    THEN "cancelled" ELSE "failed")
        /\ lastOp' = Op(IF reqs[id].status = "aborted" THEN "cancelled" ELSE "rejected", id)
        /\ UNCHANGED <<dataGrid, controllers, metadataFetch, serverTotal, nUserOps, rtVars,
                       viewport, rowSpan, table, refreshDeps>>

NextSearch ==
    \/ performSearch
    \/ SearchResolved
    \/ SearchCaught

SpecSearch == InitSearch /\ [][NextSearch]_vars

(***************************************************************************)
(* Properties                                                              *)
(***************************************************************************)
ReqIds == 1..Len(reqs)

\* the cancellation scope a request belongs to by its kind
KindScope(req) ==
    IF req.thunk = "search" THEN "search"
    ELSE IF req.isPrefetch THEN "prefetch"
    ELSE "foreground"

\* the step starts a request
StartsRequest == Len(reqs') = Len(reqs) + 1

\* C1: a step aborts an in-flight request only by starting a request of the same
\* scope (foreground/initial, prefetch, search): no start in one scope ever
\* aborts an in-flight request of another scope.
C1_CrossScopeNeverAborts ==
    [][\A i \in ReqIds :
          (reqs[i].status = "inflight" /\ reqs'[i].status = "aborted")
              => /\ StartsRequest
                 /\ KindScope(reqs'[Len(reqs')]) = KindScope(reqs[i])]_vars

\* C1 witness: a prefetch is still in flight after a foreground fetch started, and
\* that foreground fetch is still in flight after a search started.
C1_Witness ==
    \E i, j, k \in ReqIds :
        /\ i < j /\ j < k
        /\ KindScope(reqs[i]) = "prefetch" /\ reqs[i].status = "inflight"
        /\ KindScope(reqs[j]) = "foreground" /\ reqs[j].status = "inflight"
        /\ KindScope(reqs[k]) = "search"

\* the store fields C3 names
DataFields(state) ==
    <<state.allData, state.loadedRanges, state.columns, state.columnTypes,
      state.data, state.totalRows, state.error>>

\* C3: processing the rejection of a cancelled fetch (fetchInitialData or
\* fetchDataRange) leaves allData, loadedRanges, the visible columns and rows,
\* totalRows and error as they were.
C3_CancelledNeverMutates ==
    [][(\E i \in ReqIds : reqs[i].status = "aborted" /\ reqs'[i].status = "cancelled")
          => DataFields(dataGrid') = DataFields(dataGrid)]_vars

\* C3 witness: the rejection of a cancelled fetch has just been processed in a
\* store that holds rows.
C3_Witness ==
    /\ lastOp.op = "cancelled"
    /\ reqs[lastOp.id].status = "cancelled"
    /\ reqs[lastOp.id].thunk \in {"fetchInitialData", "fetchDataRange"}
    /\ Len(dataGrid.allData) > 0

\* the step dispatches fetchDataRange, directly or from handleLoadMore
DispatchesRange ==
    /\ StartsRequest
    /\ reqs'[Len(reqs')].thunk = "fetchDataRange"

\* C4: a fetchDataRange(offset, limit) dispatched while isRangeLoaded holds for
\* its range sends no query and aborts no in-flight request.
C4_LoadedRangeNeverQueries ==
    [][(/\ DispatchesRange
        /\ isRangeLoaded(dataGrid.loadedRanges, reqs'[Len(reqs')].offset,
                         reqs'[Len(reqs')].limit))
          => /\ reqs'[Len(reqs')].status # "inflight"
             /\ controllers' = controllers
             /\ \A i \in ReqIds : reqs'[i] = reqs[i]]_vars

\* C4 witness: a fetchDataRange for a loaded range was dispatched while another
\* request was in flight, which still is.
C4_Witness ==
    \E i, j \in ReqIds :
        /\ i < j
        /\ reqs[i].status = "inflight"
        /\ reqs[j].thunk = "fetchDataRange"
        /\ reqs[j].status = "skip"
        /\ isRangeLoaded(dataGrid.loadedRanges, reqs[j].offset, reqs[j].limit)

\* the rows a fulfilled request received
RowsOf(req) == ResponseData(req.request, serverTotal)

RowsPresent(rows, buffer) == \A i \in 1..Len(rows) : Includes(buffer, rows[i])

\* a prefetch p dispatched while no other fetch was in flight, then a foreground
\* fetch f, both answered; no prefetch was issued after p; the second of the two
\* answers has just been applied
PrefetchThenForeground(p, f) ==
    /\ f = p + 1
    /\ reqs[p].alone
    /\ reqs[p].thunk = "fetchDataRange" /\ reqs[p].isPrefetch
    /\ reqs[f].thunk \in {"fetchInitialData", "fetchDataRange"} /\ ~reqs[f].isPrefetch
    /\ reqs[p].status = "fulfilled" /\ reqs[f].status = "fulfilled"
    /\ \A q \in ReqIds : (q > p /\ reqs[q].thunk = "fetchDataRange") => ~reqs[q].isPrefetch
    /\ lastOp.op = "fulfilled" /\ lastOp.id \in {p, f}

MetricsStep == SetSelectedMetrics \/ ToggleMetric

\* C5: setSelectedMetrics and toggleMetric start no request, do not set
\* needsDataRefresh, and change nothing of the store but selectedMetrics and the
\* visible projection (columns, columnTypes, data).
C5_MetricsOnlyReproject ==
    [][MetricsStep
          => /\ reqs' = reqs
             /\ controllers' = controllers
             /\ dataGrid' = [dataGrid EXCEPT
                               !.selectedMetrics = dataGrid'.selectedMetrics,
                               !.columns = dataGrid'.columns,
                               !.columnTypes = dataGrid'.columnTypes,
                               !.data = dataGrid'.data]]_vars

\* C5 witness: the only plain dispatch so far changed the selected metrics of a
\* store that holds rows, and the visible columns follow the new selection.
C5_Witness ==
    /\ lastOp.op = "dispatch"
    /\ nUserOps = 1
    /\ dataGrid.selectedMetrics # initialState.selectedMetrics
    /\ Len(dataGrid.allData) > 0
    /\ dataGrid.columns = dataGrid.selectedDimensions \o dataGrid.selectedMetrics
    /\ Len(dataGrid.data) = Len(dataGrid.allData)

\* the step applies the response of a range fetch
RangeResponseStep(id) ==
    /\ reqs[id].status = "inflight"
    /\ reqs'[id].status = "fulfilled"
    /\ reqs[id].thunk = "fetchDataRange"

\* C6: the buffer never exceeds MAX_CACHED_ROWS; when a range response makes it
\* longer, exactly the excess is cut from the front: the buffer then has
\* MAX_CACHED_ROWS rows, every surviving row moved from index i to i - excess,
\* and the rows of the response are its last rows in order.
C6_EvictionTrimsHead ==
    /\ [](Len(dataGrid.allData) <= MAX_CACHED_ROWS)
    /\ [][\A id \in ReqIds :
            LET newData == RowsOf(reqs[id])
                grown == dataGrid.allData \o newData
                excess == Len(grown) - MAX_CACHED_ROWS
                after == dataGrid'.allData
            IN (RangeResponseStep(id) /\ excess > 0)
                  => /\ Len(after) = MAX_CACHED_ROWS
                     /\ \A i \in (excess + 1)..Len(grown) : after[i - excess] = grown[i]
                     /\ \A i \in 1..Len(newData) :
                           after[Len(after) - Len(newData) + i] = newData[i]]_vars

\* C6 witness: three batches were loaded into a server result of more than
\* MAX_CACHED_ROWS rows and the row of offset 0 has been evicted.
C6_Witness ==
    /\ lastOp.op = "fulfilled"
    /\ serverTotal > MAX_CACHED_ROWS
    /\ Len(dataGrid.allData) = MAX_CACHED_ROWS
    /\ \A i \in ReqIds : reqs[i].status = "fulfilled"
    /\ \A i \in 1..Len(dataGrid.allData) : dataGrid.allData[i][1][1] > 0

\* what defines the query: dimensions, filters, sort and search text
QueryDefinition(state) ==
    <<state.selectedDimensions, state.filters, state.sort, state.searchText>>

\* the step is a dispatch of one of the structural reducers that changes the
\* dimensions, the filters, the sort or the search text
StructuralChange ==
    /\ \/ SetSelectedDimensions
       \/ AddDimension
       \/ RemoveDimension
       \/ SetFilters
       \/ AddFilter
       \/ RemoveFilter
       \/ SetSort
       \/ SetSearchText
    /\ QueryDefinition(dataGrid') # QueryDefinition(dataGrid)

\* C7 as stated: every structural change, in any store state, clears allData,
\* the visible rows and the loaded ranges and sets needsDataRefresh.
C7_StructuralChangeClears ==
    [][StructuralChange
          => /\ dataGrid'.allData = <<>>
             /\ dataGrid'.data = <<>>
             /\ dataGrid'.loadedRanges = <<>>
             /\ dataGrid'.needsDataRefresh]_vars

\* the requests so far are an initial load followed by load-more fetches, each
\* dispatched at the end of the buffer and each answered
LoadMoreChain ==
    /\ Len(reqs) >= 1
    /\ reqs[1].thunk = "fetchInitialData"
    /\ \A i \in ReqIds : reqs[i].status = "fulfilled"
    /\ \A i \in 2..Len(reqs) :
          /\ reqs[i].thunk = "fetchDataRange" /\ ~reqs[i].isPrefetch
          /\ reqs[i].offset = (i - 1) * BATCH_SIZE
          /\ reqs[i].offset < serverTotal
          /\ reqs[i].limit = BATCH_SIZE

\* C8: with T <= MAX_CACHED_ROWS server rows, after the initial load and k
\* answered load-more calls the buffer holds min(T, (k+1) * BATCH_SIZE) rows and
\* hasMoreData is true iff that is less than T; a loadMore while hasMoreData is
\* false starts no fetch and leaves the store as it is.
C8_LoadMoreScenario ==
    /\ []((LoadMoreChain /\ serverTotal <= MAX_CACHED_ROWS)
            => /\ Len(dataGrid.allData) = Min(serverTotal, Len(reqs) * BATCH_SIZE)
               /\ selectHasMoreData(dataGrid) <=> (Len(dataGrid.allData) < serverTotal))
    /\ [][(lastOp'.op = "loadMore" /\ ~selectHasMoreData(dataGrid))
            => UNCHANGED <<dataGrid, reqs, controllers>>]_vars

\* C8 witness: T = MAX_CACHED_ROWS rows were loaded by the initial load and two
\* load-more calls, hasMoreData is false and a further loadMore has been made.
C8_Witness ==
    /\ LoadMoreChain
    /\ Len(reqs) = 3
    /\ serverTotal = Len(dataGrid.allData)
    /\ serverTotal > 2 * BATCH_SIZE
    /\ ~selectHasMoreData(dataGrid)
    /\ lastOp = Op("loadMore", 0)

\* no entry reaches the start of a later entry
NoTouching(ranges) ==
    \A i, j \in 1..Len(ranges) : i < j => ranges[i].end < ranges[j].start

Covers(ranges, r) ==
    \E i \in 1..Len(ranges) : ranges[i].start <= r.start /\ r.end <= ranges[i].end

\* C9: after any sequence of additions no two tracked entries a before b have
\* a.end >= b.start, and adding an interval that a tracked range already covers
\* leaves the tracked set as it was.
C9_MergedAndIdempotent ==
    /\ NoTouching(rtRanges)
    /\ (Len(rtAdded) > 0 /\ Covers(rtPrev, rtAdded[Len(rtAdded)])) => rtRanges = rtPrev

\* C9 witness: an interval covered by one of two tracked ranges has been added.
C9_Witness ==
    /\ Len(rtAdded) > 0
    /\ Covers(rtPrev, rtAdded[Len(rtAdded)])
    /\ rtAdded[Len(rtAdded)].end > rtAdded[Len(rtAdded)].start
    /\ Len(rtRanges) = 2

\* the offset lies in one of the added intervals
InUnion(added, o) ==
    \E i \in 1..Len(added) : added[i].start <= o /\ o < added[i].end

\* C10 as stated: isRangeLoaded(offset, limit) is true iff every offset of
\* [offset, offset + limit) lies in the union of the added intervals; a gap
\* between two added ranges is never reported as loaded.
C10_LoadedIffInUnion ==
    \A offset \in 0..MaxRangePos :
        \A limit \in 1..(MaxRangePos + 1 - offset) :
            isRangeLoaded(rtRanges, offset, limit)
                <=> \A o \in offset..(offset + limit - 1) : InUnion(rtAdded, o)

\* row r's pixel span [r * rowHeight, (r + 1) * rowHeight) meets the viewport
\* [scrollTop, scrollTop + containerHeight)
Intersects(v, r) ==
    /\ r * v.rowHeight < v.scrollTop + v.containerHeight
    /\ (r + 1) * v.rowHeight > v.scrollTop

\* the rows of the buffer that meet the viewport
RowsInView(v) == {r \in 0..(v.totalRows - 1) : Intersects(v, r)}

FirstOf(S) == CHOOSE r \in S : \A q \in S : r <= q
LastOf(S) == CHOOSE r \in S : \A q \in S : r >= q

\* C11: the window [startIndex, endIndex) contains every row of the buffer whose
\* pixel span meets the viewport, and reaches exactly overscan rows before the
\* first and after the last of them, as far as such rows exist.
C11_WindowCoversViewport ==
    LET w == Window(viewport)
        S == RowsInView(viewport)
    IN /\ \A r \in S : w.startIndex <= r /\ r < w.endIndex
       /\ S # {} =>
            /\ w.startIndex = Max(0, FirstOf(S) - viewport.overscan)
            /\ w.endIndex = Min(viewport.totalRows, LastOf(S) + 1 + viewport.overscan)

\* a partly visible row away from both ends of the buffer, with overscan rows
\* on both sides
C11_Witness ==
    LET S == RowsInView(viewport)
    IN /\ S # {}
       /\ viewport.overscan > 0
       /\ viewport.scrollTop % viewport.rowHeight # 0
       /\ FirstOf(S) - viewport.overscan > 0
       /\ LastOf(S) + 1 + viewport.overscan < viewport.totalRows
       /\ Window(viewport).startIndex = FirstOf(S) - viewport.overscan
       /\ Window(viewport).endIndex = LastOf(S) + 1 + viewport.overscan

\* C12 as stated: in every reachable state of the viewport the window satisfies
\* 0 <= startIndex <= endIndex <= totalRows, and an empty buffer gives
\* startIndex = endIndex = 0.
C12_WindowClamped ==
    LET w == Window(viewport)
    IN /\ 0 <= w.startIndex
       /\ w.startIndex <= w.endIndex
       /\ w.endIndex <= viewport.totalRows
       /\ viewport.totalRows = 0 => (w.startIndex = 0 /\ w.endIndex = 0)

\* C15 as stated: when the frame callback runs, the scrollTop it commits is the
\* scrollTop of the last scroll event received.
C15_LatestScrollWins ==
    [][(viewport.frame # NoFrame /\ viewport'.frame = NoFrame)
          => viewport'.scrollTop = viewport.lastEvent]_vars

\* the groupable columns of the current layout
GroupableColumns == spanningColIndices(rowSpan.columnNames, rowSpan.dimensionCount)

RowIndices == 0..(Len(rowSpan.data) - 1)

\* rows a and b have the same value in column c and in every groupable column
\* to its left
SameGroupKey(a, b, c) ==
    \A col \in GroupableColumns :
        col <= c => CellAt(rowSpan.data, a, col) = CellAt(rowSpan.data, b, col)

\* the rows of the group reported for (r, c)
GroupRun(r, c) ==
    LET g == getGroupInfo(rowSpan, r, c)
    IN g.startRow..(g.startRow + g.rowCount - 1)

\* C13: for every groupable column c and row r, the group reported for (r, c) is
\* the maximal run of consecutive rows around r that agree in column c and in
\* every groupable column to its left: its rows agree, and the row before it and
\* the row after it, where they exist, do not.
C13_GroupIsMaximalRun ==
    \A c \in GroupableColumns : \A r \in RowIndices :
        LET g == getGroupInfo(rowSpan, r, c)
            first == g.startRow
            last == g.startRow + g.rowCount - 1
        IN /\ 0 <= first /\ first <= r /\ r <= last /\ last < Len(rowSpan.data)
           /\ g.value = CellAt(rowSpan.data, r, c)
           /\ \A a \in first..last : SameGroupKey(a, r, c)
           /\ first > 0 => ~SameGroupKey(first - 1, r, c)
           /\ last + 1 < Len(rowSpan.data) => ~SameGroupKey(last + 1, r, c)

\* a group of two rows in a child column with a row before it that differs only
\* in the parent column and a row after it
C13_Witness ==
    /\ Len(rowSpan.data) = 4
    /\ \E c \in GroupableColumns : \E p \in GroupableColumns :
          /\ p < c
          /\ GroupRun(1, c) = 1..2
          /\ CellAt(rowSpan.data, 0, c) = CellAt(rowSpan.data, 1, c)
          /\ CellAt(rowSpan.data, 0, p) # CellAt(rowSpan.data, 1, p)

\* C14: for groupable columns p < c, the group of (r, c) lies inside the group
\* of (r, p): a child group never crosses a parent group boundary.
C14_ChildInsideParent ==
    \A c \in GroupableColumns : \A p \in GroupableColumns :
        p < c => \A r \in RowIndices : GroupRun(r, c) \subseteq GroupRun(r, p)

\* rows shaped like [[A,X],[A,Y],[B,X]]: equal child values on both sides of a
\* parent boundary stay in separate groups
C14_Witness ==
    /\ Len(rowSpan.data) >= 3
    /\ \E c \in GroupableColumns : \E p \in GroupableColumns :
          /\ p < c
          /\ CellAt(rowSpan.data, 0, p) = CellAt(rowSpan.data, 1, p)
          /\ CellAt(rowSpan.data, 1, p) # CellAt(rowSpan.data, 2, p)
          /\ CellAt(rowSpan.data, 0, c) # CellAt(rowSpan.data, 1, c)
          /\ CellAt(rowSpan.data, 0, c) = CellAt(rowSpan.data, 2, c)
          /\ GroupRun(0, p) = 0..1
          /\ GroupRun(0, c) = 0..0
          /\ GroupRun(2, c) = 2..2

DataThunks == {"fetchInitialData", "fetchDataRange"}

\* the step processes the rejection of data fetch i for a reason other than
\* cancellation
FailureProcessed(i) ==
    /\ reqs[i].thunk \in DataThunks
    /\ reqs[i].status = "inflight"
    /\ reqs'[i].status = "failed"

\* the step processes the rejection of the cancelled data fetch i
CancellationProcessed(i) ==
    /\ reqs[i].thunk \in DataThunks
    /\ reqs[i].status = "aborted"
    /\ reqs'[i].status = "cancelled"

BufferFields(state) ==
    <<state.allData, state.loadedRanges, state.allColumns, state.columns, state.data>>

\* C18: processing a rejected data fetch, initial or range, cancelled or failed,
\* leaves allData, loadedRanges, allColumns and the visible columns and rows as
\* they were.
C18_RejectionKeepsRows ==
    [][\A i \in ReqIds :
          (FailureProcessed(i) \/ CancellationProcessed(i))
              => BufferFields(dataGrid') = BufferFields(dataGrid)]_vars

\* an initial load has just failed in a store that holds rows of an earlier load
C18_Witness ==
    /\ lastOp.op = "rejected"
    /\ reqs[lastOp.id].thunk = "fetchInitialData"
    /\ reqs[lastOp.id].status = "failed"
    /\ Len(dataGrid.allData) > 0
    /\ Len(dataGrid.data) > 0
    /\ dataGrid.error # NULL

\* the last data request was a load-more or prefetch that failed, nothing is in
\* flight and the server holds more rows than the buffer
RangeFetchFailed ==
    /\ Len(reqs) > 0
    /\ reqs[Len(reqs)].thunk = "fetchDataRange"
    /\ reqs[Len(reqs)].status = "failed"
    /\ \A i \in ReqIds : reqs[i].status \in Settled
    /\ selectHasMoreData(dataGrid)
    /\ Len(dataGrid.allData) < serverTotal
    /\ table.mounted

\* the step handles a scroll event whose position satisfies a trigger condition
ScrollAtTrigger ==
    /\ table.mounted /\ Rendered
    /\ lastOp' # lastOp
    /\ lastOp' = Op("scroll", 1) \/ lastOp'.op = "loadMore"

\* C17 as stated: after a failed load-more or prefetch with server rows left,
\* the next scroll event at a trigger position issues a new load request.
C17_RetryOnNextScroll ==
    [][(RangeFetchFailed /\ ScrollAtTrigger)
          => /\ Len(reqs') = Len(reqs) + 1
             /\ reqs'[Len(reqs')].status = "inflight"]_vars

\* the answer just applied held fewer rows than the fetch asked for
ShortAnswer ==
    /\ lastOp.op = "fulfilled"
    /\ reqs[lastOp.id].thunk \in DataThunks
    /\ Len(RowsOf(reqs[lastOp.id])) < reqs[lastOp.id].limit

\* what the claim takes as the signs of the end of the server's data
EndOfDataSeen ==
    \/ ShortAnswer
    \/ Len(dataGrid.allData) >= dataGrid.totalRows

\* C19 as stated: as soon as a fetch returned fewer rows than its limit, or the
\* buffer is at least totalRows long, hasMoreData is false and a loadMore starts
\* no fetch.
C19_EndOfDataStopsLoading ==
    /\ [](EndOfDataSeen => ~selectHasMoreData(dataGrid))
    /\ [][(EndOfDataSeen /\ lastOp' # lastOp /\ lastOp'.op = "loadMore")
            => (reqs' = reqs /\ dataGrid' = dataGrid)]_vars

(***************************************************************************)
(* C20: the visible projection                                             *)
(***************************************************************************)
\* the names of a selection that the fetched columns contain, in selection order
Occurring(selection, allColumns) ==
    LET Fetched(col) == \E k \in 1..Len(allColumns) : allColumns[k] = col
    IN SelectSeq(selection, Fetched)

\* the cell of a buffered row under a column name (first column of that name)
CellNamed(state, row, col) ==
    LET k == CHOOSE j \in 1..Len(state.allColumns) :
                 /\ state.allColumns[j] = col
                 /\ \A h \in 1..(j - 1) : state.allColumns[h] # col
    IN IF k <= Len(row) THEN row[k] ELSE Undefined

\* C20: whenever the buffer is non-empty, the visible columns are the selected
\* dimensions that occur in allColumns followed by the selected metrics that
\* occur in allColumns, each in selection order; visible row i is the projection
\* of allData[i] onto those columns; every visible row has columns.length cells;
\* and every visible column is a fetched column.
C20_VisibleProjection ==
    Len(dataGrid.allData) > 0 =>
        /\ dataGrid.columns = Occurring(dataGrid.selectedDimensions, dataGrid.allColumns)
                                \o Occurring(dataGrid.selectedMetrics, dataGrid.allColumns)
        /\ Len(dataGrid.data) = Len(dataGrid.allData)
        /\ \A i \in 1..Len(dataGrid.data) :
              /\ Len(dataGrid.data[i]) = Len(dataGrid.columns)
              /\ \A c \in 1..Len(dataGrid.columns) :
                    dataGrid.data[i][c] = CellNamed(dataGrid, dataGrid.allData[i], dataGrid.columns[c])
        /\ \A c \in 1..Len(dataGrid.columns) :
              \E k \in 1..Len(dataGrid.allColumns) : dataGrid.allColumns[k] = dataGrid.columns[c]

\* a non-empty buffer projected under a selection that names a column the
\* fetched columns lack and leaves a fetched column out, with rows on show
C20_Witness ==
    /\ Len(dataGrid.allData) > 0
    /\ Len(dataGrid.columns) >= 1
    /\ Len(dataGrid.columns) < Len(dataGrid.allColumns)
    /\ Len(dataGrid.columns) < Len(dataGrid.selectedDimensions \o dataGrid.selectedMetrics)
    /\ Len(dataGrid.data) = Len(dataGrid.allData)

(***************************************************************************)
(* C21: buffer index and server offset                                     *)
(***************************************************************************)
\* the server offset a buffered row carries
OffsetOf(row) == row[1][1]

\* the row at buffer index i (0-based) is the server row of offset i
IndexIsOffset(state) ==
    \A i \in 1..Len(state.allData) : OffsetOf(state.allData[i]) = i - 1

\* the step applies a range response that makes the buffer exceed the cache limit
EvictionStep ==
    \E id \in ReqIds :
        /\ RangeResponseStep(id)
        /\ Len(dataGrid.allData) + Len(RowsOf(reqs[id])) > MAX_CACHED_ROWS

\* C21: as long as no eviction occurs, every row of the buffer sits at the index
\* of its server offset: a step that evicts nothing takes a buffer whose index i
\* holds server row i to a buffer whose index i holds server row i.
C21_IndexIsServerOffset ==
    [][(IndexIsOffset(dataGrid) /\ ~EvictionStep) => IndexIsOffset(dataGrid')]_vars

(***************************************************************************)
(* C22: one live request per cancellation scope                            *)
(***************************************************************************)
\* the requests of a scope that are in flight and not aborted
LiveOn(rs, scope) ==
    {i \in 1..Len(rs) : rs[i].scope = scope /\ rs[i].status = "inflight"}

\* C22: within one cancellation scope a new request aborts the scope's previous
\* in-flight request in the step that sends it, so a scope never has more than
\* one request in flight that is not aborted, that request is the one the
\* scope's controller guards, and a response is applied only for it.
C22_OneLiveRequestPerScope ==
    /\ [](\A scope \in Scopes :
            /\ Cardinality(LiveOn(reqs, scope)) <= 1
            /\ LiveOn(reqs, scope) \subseteq {controllers[scope]})
    /\ [][\A scope \in Scopes :
            /\ (StartsRequest /\ reqs'[Len(reqs')].scope = scope)
                  => LiveOn(reqs', scope) = {Len(reqs')}
            /\ \A id \in ReqIds :
                  (reqs[id].scope = scope /\ reqs[id].status # "fulfilled"
                     /\ reqs'[id].status = "fulfilled")
                      => LiveOn(reqs, scope) = {id}]_vars

\* C22 witness: a request superseded on its scope was rejected as cancelled and
\* the request that superseded it has been answered, with a request of another
\* scope still in flight
C22_Witness ==
    \E a, b, c \in ReqIds :
        /\ a < b
        /\ reqs[a].scope = reqs[b].scope
        /\ reqs[a].status = "cancelled"
        /\ reqs[b].status = "fulfilled"
        /\ reqs[c].scope # reqs[b].scope
        /\ reqs[c].status = "inflight"

(***************************************************************************)
(* C23: a range fetch for a loaded range                                   *)
(***************************************************************************)
\* the fields the claim names
NoOpFields(state) ==
    <<state.isLoading, state.isPrefetching, state.allData, state.loadedRanges,
      state.data, state.error>>

\* the step dispatches a fetchDataRange whose payload creator returns null
SkippedRangeDispatch ==
    /\ DispatchesRange
    /\ reqs'[Len(reqs')].status = "skip"

\* C23: a fetchDataRange for a range that is already loaded is a no-op on the
\* store.  Nothing runs between its dispatch and its resolution, and once it has
\* resolved (the null fulfilment applied to the store its pending reducer left)
\* isLoading, isPrefetching, allData, loadedRanges, data and error are what they
\* were before the dispatch, for isPrefetch true and false.
C23_LoadedRangeIsNoOp ==
    /\ [][\A id \in ReqIds :
            reqs[id].status = "skip"
               => /\ reqs'[id].status = "skipped"
                  /\ dataGrid' = fetchDataRange_fulfilled(dataGrid, NullPayload)]_vars
    /\ [][SkippedRangeDispatch
            => NoOpFields(fetchDataRange_fulfilled(dataGrid', NullPayload))
                 = NoOpFields(dataGrid)]_vars

(***************************************************************************)
(* C24: the tracked ranges are non-empty and sorted                        *)
(***************************************************************************)
\* C24: in every reachable store state every tracked range has end > start and
\* the ranges are sorted ascending by start.
C24_RangesNonEmptySorted ==
    LET ranges == dataGrid.loadedRanges
    IN /\ \A i \in 1..Len(ranges) : ranges[i].end > ranges[i].start
       /\ \A i \in 1..(Len(ranges) - 1) : ranges[i].start <= ranges[i + 1].start

(***************************************************************************)
(* C25: a viewport without height                                          *)
(***************************************************************************)
\* C25: when containerHeight <= 0 the computed visible range is empty
\* (startIndex >= endIndex), whatever scrollTop, rowHeight, totalRows and
\* overscan are.
C25_NoHeightNoRows ==
    viewport.containerHeight <= 0
        => Window(viewport).startIndex >= Window(viewport).endIndex

(***************************************************************************)
(* C26: retries are never automatic                                        *)
(***************************************************************************)
\* the last thing that happened to the store is the rejection of a fetch
AfterRejection == lastOp.op \in {"rejected", "cancelled", "fetchMetadata.rejected"}

\* ... and the fetch was an initial load
AfterInitialRejection ==
    /\ lastOp.op \in {"rejected", "cancelled"}
    /\ reqs[lastOp.id].thunk = "fetchInitialData"

\* the caller's explicit ways to fetch again: the Retry button and a scroll
\* trigger (a structural change is a dispatch, after which the last operation
\* is no longer the rejection)
ExplicitFetch == lastOp'.op \in {"retry", "loadMore"}

\* C26: retries are never automatic.  While the rejection of a fetch is the last
\* thing that happened to the store, a request is started only by the Retry
\* button or a scroll trigger, and the rejection of an initial load leaves
\* needsDataRefresh false, so the refresh effect does not fetch again.
C26_NoAutomaticRetry ==
    /\ [][(AfterRejection /\ StartsRequest) => ExplicitFetch]_vars
    /\ [](AfterInitialRejection => ~dataGrid.needsDataRefresh)

\* C26 witness: an initial load has failed, the refresh effect has run on the
\* store the rejection left (needsDataRefresh went from true to false) and no
\* request is in flight
C26_Witness ==
    /\ lastOp.op = "rejected"
    /\ reqs[lastOp.id].thunk = "fetchInitialData"
    /\ dataGrid.error # NULL
    /\ Quiet
    /\ \A i \in ReqIds : reqs[i].status # "inflight"

(***************************************************************************)
(* C27: cancellations are swallowed silently                               *)
(***************************************************************************)
\* the step delivers the rejection of request id, aborted by its successor
CancellationDelivered(id) ==
    /\ reqs[id].status = "aborted"
    /\ reqs'[id].status = "cancelled"

\* C27: in every scope the rejection of a superseded (cancelled) request is
\* swallowed silently: delivering it logs no error, sets no error on the store
\* and leaves the displayed rows and the displayed search results as they were.
C27_CancellationSilent ==
    [][\A id \in ReqIds :
         CancellationDelivered(id)
            => /\ searchBar'.errors = searchBar.errors
               /\ searchBar'.results = searchBar.results
               /\ dataGrid'.error = dataGrid.error
               /\ dataGrid'.data = dataGrid.data]_vars

(***************************************************************************)
(* C28: a successful initial load                                          *)
(***************************************************************************)
\* the step applies the response of an initial load
InitialResponseStep(id) ==
    /\ reqs[id].status = "inflight"
    /\ reqs'[id].status = "fulfilled"
    /\ reqs[id].thunk = "fetchInitialData"

\* the visible columns and rows of a store are the projection of its buffer
\* onto its selection
ProjectionOf(state) ==
    /\ state.columns = Occurring(state.selectedDimensions, state.allColumns)
                         \o Occurring(state.selectedMetrics, state.allColumns)
    /\ Len(state.data) = Len(state.allData)
    /\ \A i \in 1..Len(state.data) :
          /\ Len(state.data[i]) = Len(state.columns)
          /\ \A c \in 1..Len(state.columns) :
                state.data[i][c] = CellNamed(state, state.allData[i], state.columns[c])

\* C28: a successful fetchInitialData replaces the whole buffer by the received
\* rows, resets the tracked ranges to the single range [0, received.length),
\* recomputes the visible projection from the new buffer and clears
\* needsDataRefresh; the request it sends asks for offset 0, limit BATCH_SIZE
\* and all metrics of the metadata, whatever selectedMetrics is.
C28_InitialLoadReplaces ==
    [][/\ \A id \in ReqIds :
            InitialResponseStep(id)
               => /\ dataGrid'.allData = RowsOf(reqs[id])
                  /\ dataGrid'.allColumns = ResponseColumns(reqs[id].request)
                  /\ dataGrid'.loadedRanges =
                        <<[start |-> 0, end |-> Len(RowsOf(reqs[id]))]>>
                  /\ ProjectionOf(dataGrid')
                  /\ ~dataGrid'.needsDataRefresh
       /\ (StartsRequest /\ reqs'[Len(reqs')].thunk = "fetchInitialData")
            => /\ reqs'[Len(reqs')].request.offset = 0
               /\ reqs'[Len(reqs')].request.limit = BATCH_SIZE
               /\ reqs'[Len(reqs')].request.metrics = AllMetricNames
               /\ reqs'[Len(reqs')].status = "inflight"]_vars

\* C28 witness: an initial load, sent for all metrics although the selection had
\* been changed, was answered after a range fetch had put rows in the buffer;
\* the buffer holds the rows of the initial load only
C28_Witness ==
    /\ lastOp.op = "fulfilled"
    /\ reqs[lastOp.id].thunk = "fetchInitialData"
    /\ reqs[lastOp.id].request.metrics = AllMetricNames
    /\ dataGrid.selectedMetrics # AllMetricNames
    /\ dataGrid.selectedMetrics # initialState.selectedMetrics
    /\ \E j \in ReqIds : /\ reqs[j].thunk = "fetchDataRange"
                         /\ reqs[j].status = "fulfilled"
                         /\ Len(RowsOf(reqs[j])) > 0
                         /\ ~RowsPresent(RowsOf(reqs[j]), dataGrid.allData)
    /\ Len(dataGrid.allData) > 0
    /\ dataGrid.needsDataRefresh = FALSE

(***************************************************************************)
(* C29: a successful range fetch                                           *)
(***************************************************************************)
\* C29: a successful fetchDataRange(offset, limit) that returned len rows
\* appends exactly those rows to the end of the buffer, adds [offset, offset+len)
\* to the tracked ranges and merges, and only then evicts: the buffer is the
\* grown buffer less its excess rows at the head, the ranges are the merged
\* ranges shifted by the excess, the visible rows are the projection of the
\* whole buffer, and isLoaded(offset, len) holds of the ranges as merged.
C29_RangeLoadAppends ==
    [][\A id \in ReqIds :
         LET newData == RowsOf(reqs[id])
             offset == reqs[id].offset
             grown == dataGrid.allData \o newData
             added == mergeRanges(Append(dataGrid.loadedRanges,
                                         [start |-> offset, end |-> offset + Len(newData)]))
             excess == Max(0, Len(grown) - MAX_CACHED_ROWS)
         IN RangeResponseStep(id)
               => /\ Len(dataGrid'.allData) = Len(grown) - excess
                  /\ \A i \in 1..Len(dataGrid'.allData) :
                        dataGrid'.allData[i] = grown[i + excess]
                  /\ isRangeLoaded(added, offset, Len(newData))
                  /\ dataGrid'.loadedRanges =
                        IF excess = 0 THEN added ELSE ShiftRanges(added, excess)
                  /\ ProjectionOf(dataGrid')]_vars

\* C29 witness: a range fetch was answered, its rows are the last of the buffer,
\* rows were evicted at the head, the tracked range was shifted with them and
\* the visible rows are as many as the buffer's
C29_Witness ==
    /\ lastOp.op = "fulfilled"
    /\ reqs[lastOp.id].thunk = "fetchDataRange"
    /\ Len(RowsOf(reqs[lastOp.id])) > 0
    /\ Len(dataGrid.allData) = MAX_CACHED_ROWS
    /\ OffsetOf(dataGrid.allData[1]) > 0
    /\ dataGrid.allData[Len(dataGrid.allData)]
          = RowsOf(reqs[lastOp.id])[Len(RowsOf(reqs[lastOp.id]))]
    /\ dataGrid.loadedRanges = <<[start |-> 0, end |-> MAX_CACHED_ROWS]>>
    /\ Len(dataGrid.data) = MAX_CACHED_ROWS

(***************************************************************************)
(* C30: the scroll trigger                                                 *)
(***************************************************************************)
\* the step handles a scroll event
ScrollStep ==
    /\ table.mounted /\ Rendered
    /\ lastOp'.op \in {"scroll", "loadMore"}
    /\ lastOp' # lastOp \/ table' # table

\* C30: a scroll event invokes onLoadMore iff its position meets a trigger
\* condition (scroll progress >= 0.7 or less than 500 px from the bottom),
\* hasMoreData holds, neither isLoading nor isLoadingMore is set and no load was
\* triggered in the current data epoch; one event invokes it at most once, also
\* when both conditions hold, and so do all events between two changes of the
\* buffer length.
C30_ScrollTriggerOnce ==
    /\ [][ScrollStep
            => /\ table'.event.calls >= 1
                    <=> /\ table'.event.atProgress \/ table'.event.nearBottom
                        /\ Len(dataGrid.allData) < dataGrid.totalRows
                        /\ ~dataGrid.isLoading
                        /\ ~dataGrid.isPrefetching
                        /\ ~table.loadMoreTriggeredRef
               /\ table'.event.calls <= 1
               /\ table'.event.calls >= 1 => lastOp'.op = "loadMore"]_vars
    /\ [](table.epoch.calls <= 1)

\* C30 witness: a scroll event whose position met both trigger conditions has
\* called onLoadMore once and the fetch it dispatched is in flight
C30_Witness ==
    /\ table.event.atProgress /\ table.event.nearBottom
    /\ table.event.calls = 1
    /\ table.loadMoreTriggeredRef
    /\ lastOp.op = "loadMore"
    /\ reqs[lastOp.id].status = "inflight"
    /\ reqs[lastOp.id].thunk = "fetchDataRange"

\* the tracked range shifted by d and clamped at 0
Shifted(r, d) == Range(Max(0, r.start - d), Max(0, r.end - d))

\* the positions of the ranges that survive a shift by d
Survivors(ranges, d) ==
    {i \in 1..Len(ranges) : Shifted(ranges[i], d).end > Shifted(ranges[i], d).start}

\* C31: shifting a merged, sorted set by d >= 0 gives, in order, every range
\* moved down by d with both bounds clamped at 0, without the ranges whose
\* end <= start; the result has no negative or inverted bounds and is sorted
\* and non-overlapping.
C31_ShiftClampsAndDrops ==
    lastOp.op = "shiftRanges" =>
        LET d == lastOp.id
            kept == Survivors(rtPrev, d)
        IN /\ Len(rtRanges) = Cardinality(kept)
           /\ \A i \in kept :
                  rtRanges[Cardinality({k \in kept : k <= i})] = Shifted(rtPrev[i], d)
           /\ \A j \in 1..Len(rtRanges) :
                  0 <= rtRanges[j].start /\ rtRanges[j].start < rtRanges[j].end
           /\ \A i, j \in 1..Len(rtRanges) :
                  i < j => /\ rtRanges[i].start <= rtRanges[j].start
                           /\ rtRanges[i].end <= rtRanges[j].start

\* C31 witness: a shift of two tracked ranges has clamped one at 0 and dropped
\* the other.
C31_Witness ==
    /\ lastOp.op = "shiftRanges"
    /\ Len(rtPrev) = 2
    /\ Len(rtRanges) = 1
    /\ rtRanges[1].start = 0
    /\ rtPrev[2].start < lastOp.id
    /\ rtPrev[2].start > 0

\* q is the largest whole number with q * b <= a
IsFloorOf(q, a, b) == q * b <= a /\ a < (q + 1) * b

\* q is the smallest whole number with a <= q * b
IsCeilOf(q, a, b) == (q - 1) * b < a /\ a <= q * b

\* C32: in every state of the hook (whole, non-negative inputs, rowHeight > 0)
\* startIndex = max(0, floor(scrollTop / rowHeight) - overscan),
\* endIndex = min(totalRows, ceil((scrollTop + containerHeight) / rowHeight) + overscan),
\* offsetTop = startIndex * rowHeight and totalHeight = totalRows * rowHeight.
C32_WindowFormulas ==
    LET v == viewport
    IN \E f, c \in 0..(v.scrollTop + v.containerHeight) :
           /\ IsFloorOf(f, v.scrollTop, v.rowHeight)
           /\ IsCeilOf(c, v.scrollTop + v.containerHeight, v.rowHeight)
           /\ Window(v).startIndex = Max(0, f - v.overscan)
           /\ Window(v).endIndex = Min(v.totalRows, c + v.overscan)
           /\ OffsetTop(v) = Max(0, f - v.overscan) * v.rowHeight
           /\ TotalHeight(v) = v.totalRows * v.rowHeight

\* C32 witness: scrolled into the middle of a row, with overscan, and neither
\* clamp applies.
C32_Witness ==
    /\ viewport.scrollTop % viewport.rowHeight # 0
    /\ (viewport.scrollTop + viewport.containerHeight) % viewport.rowHeight # 0
    /\ viewport.overscan > 0
    /\ Window(viewport).startIndex > 0
    /\ Window(viewport).endIndex < viewport.totalRows
    /\ OffsetTop(viewport) > 0

\* a run of column c starts at row s: s is the first row, or the row before it
\* differs in column c or in a groupable column to its left
RunStartsAt(s, c) == s = 0 \/ ~SameGroupKey(s - 1, s, c)

\* the last row of the run of column c that contains row s
RunEnd(s, c) ==
    CHOOSE e \in s..(Len(rowSpan.data) - 1) :
        /\ \A a \in s..e : SameGroupKey(a, s, c)
        /\ e + 1 < Len(rowSpan.data) => ~SameGroupKey(e + 1, s, c)

RunLength(s, c) == RunEnd(s, c) - s + 1

ColumnIndices == 0..(Len(rowSpan.columnNames) - 1)

\* C33: for every groupable column c the span map has an entry at (s, c) iff a
\* run of column c starts at row s with length > 1, and its span is the run
\* length; every row of every run, runs of length 1 included, has its group
\* membership {value, startRow, rowCount} with startRow <= row < startRow +
\* rowCount; an empty buffer or no groupable column gives an empty span set and
\* getRowSpan 1 everywhere.
C33_SpansAndMembership ==
    LET map == spanMap(rowSpan.data, GroupableColumns)
    IN /\ DOMAIN map \subseteq RowIndices \X GroupableColumns
       /\ \A c \in GroupableColumns : \A s \in RowIndices :
              /\ <<s, c>> \in DOMAIN map <=> RunStartsAt(s, c) /\ RunLength(s, c) > 1
              /\ <<s, c>> \in DOMAIN map =>
                     /\ map[<<s, c>>] = [rowIndex |-> s, colIndex |-> c,
                                         span |-> RunLength(s, c)]
                     /\ getRowSpan(rowSpan, s, c) = RunLength(s, c)
              /\ <<s, c>> \notin DOMAIN map => getRowSpan(rowSpan, s, c) = 1
       /\ \A c \in GroupableColumns : \A r \in RowIndices :
              LET g == getGroupInfo(rowSpan, r, c)
              IN /\ g # NoGroupInfo
                 /\ g.startRow <= r /\ r < g.startRow + g.rowCount
                 /\ RunStartsAt(g.startRow, c)
                 /\ g.rowCount = RunLength(g.startRow, c)
                 /\ g.value = CellAt(rowSpan.data, g.startRow, c)
       /\ (Len(rowSpan.data) = 0 \/ GroupableColumns = {}) =>
              /\ map = <<>>
              /\ \A r \in 0..MaxSpanRows : \A c \in ColumnIndices :
                     getRowSpan(rowSpan, r, c) = 1

\* C33 witness: rows shaped like [[A,1],[A,2],[B,3]] with only column 0
\* groupable: exactly one span {0, 0, 2}, and the last row is a group of its own.
C33_Witness ==
    /\ GroupableColumns = {0}
    /\ Len(rowSpan.data) = 3
    /\ CellAt(rowSpan.data, 0, 0) = "A"
    /\ CellAt(rowSpan.data, 1, 0) = "A"
    /\ CellAt(rowSpan.data, 2, 0) # "A"
    /\ spanMap(rowSpan.data, GroupableColumns)
           = (<<0, 0>> :> [rowIndex |-> 0, colIndex |-> 0, span |-> 2])
    /\ getGroupInfo(rowSpan, 2, 0)
           = GroupInfo(CellAt(rowSpan.data, 2, 0), 2, 1)
    /\ getGroupInfo(rowSpan, 1, 0) = GroupInfo("A", 0, 2)

\* the column's name, compared without regard to case, is in the allow-list
Listed(c) == \E n \in SPANNING_COLUMNS : ToLowerCase(rowSpan.columnNames[c + 1]) = n

\* C34: a column is groupable only if its index is below dimensionCount and its
\* name is in the allow-list; for every other column (a metric column, or a
\* dimension column outside the list) isGroupingColumn is false, no group or
\* span entry exists in any row, getRowSpan is 1 and shouldRender is true.
C34_OnlyListedDimensionsGroup ==
    \A c \in ColumnIndices :
        /\ isGroupingColumn(rowSpan, c) => c < rowSpan.dimensionCount /\ Listed(c)
        /\ (c >= rowSpan.dimensionCount \/ ~Listed(c)) =>
               /\ ~isGroupingColumn(rowSpan, c)
               /\ \A r \in RowIndices :
                      /\ getGroupInfo(rowSpan, r, c) = NoGroupInfo
                      /\ <<r, c>> \notin DOMAIN spanMap(rowSpan.data, GroupableColumns)
                      /\ <<r, c>> \notin DOMAIN groupMap(rowSpan.data, GroupableColumns)
                      /\ getRowSpan(rowSpan, r, c) = 1
                      /\ shouldRender(rowSpan, r, c)

\* C34 witness: a listed name in a metric position and a dimension outside the
\* list, both with two equal rows, and neither grouped.
C34_Witness ==
    /\ Len(rowSpan.data) >= 2
    /\ \E m \in ColumnIndices : \E d \in ColumnIndices :
          /\ m >= rowSpan.dimensionCount /\ Listed(m)
          /\ d < rowSpan.dimensionCount /\ ~Listed(d)
          /\ CellAt(rowSpan.data, 0, m) = CellAt(rowSpan.data, 1, m)
          /\ CellAt(rowSpan.data, 0, d) = CellAt(rowSpan.data, 1, d)
          /\ getRowSpan(rowSpan, 0, m) = 1 /\ getRowSpan(rowSpan, 0, d) = 1
          /\ shouldRender(rowSpan, 1, m) /\ shouldRender(rowSpan, 1, d)

\* the dimensions, filters and sort a request was built from
ConfigurationOf(request) == <<request.dimensions, request.filters, request.sort>>

\* the request was issued under another configuration than the store has now
IssuedUnderPrevious(id) ==
    ConfigurationOf(reqs[id].request)
        # <<dataGrid.selectedDimensions, dataGrid.filters, dataGrid.sort>>

\* C35: the response to a prefetch or load-more that was issued before a
\* structural change (under other dimensions, filters or sort than the store has
\* when it arrives) is not applied: it appends no rows to the buffer and adds no
\* range to loadedRanges.
C35_StaleResponseDiscarded ==
    [][\A id \in ReqIds :
          (RangeResponseStep(id) /\ IssuedUnderPrevious(id)) =>
              /\ dataGrid'.allData = dataGrid.allData
              /\ dataGrid'.data = dataGrid.data
              /\ dataGrid'.loadedRanges = dataGrid.loadedRanges]_vars

\* the dimensions, filters and sort of the query a buffered row answers
ConfigurationOfRow(row) == <<row[1][3][1], row[1][3][2], row[1][3][3]>>

CurrentConfiguration ==
    <<dataGrid.selectedDimensions, dataGrid.filters, dataGrid.sort>>

\* the initial loads that succeeded
FulfilledInitialLoads ==
    {i \in ReqIds : reqs[i].thunk = "fetchInitialData" /\ reqs[i].status = "fulfilled"}

\* render and effects are done, no fetch is in flight or about to settle, and
\* no fetch failed
SettledWithoutFailure ==
    /\ UiReady
    /\ Quiet
    /\ ~MicrotaskQueued
    /\ \A i \in ReqIds : reqs[i].status \notin {"inflight", "failed"}

\* C36: once the component has settled with no fetch in flight and none failed,
\* the last successful initial load was issued with the dimensions, filters and
\* sort the store has now, and every row of the buffer answers that query; this
\* holds after any structural changes, also one made while an initial load was
\* in flight.
C36_BufferMatchesConfiguration ==
    (SettledWithoutFailure /\ Len(dataGrid.selectedDimensions) > 0) =>
        /\ FulfilledInitialLoads # {}
        /\ \A i \in FulfilledInitialLoads :
               (\A j \in FulfilledInitialLoads : j <= i) =>
                   ConfigurationOf(reqs[i].request) = CurrentConfiguration
        /\ \A k \in 1..Len(dataGrid.allData) :
               ConfigurationOfRow(dataGrid.allData[k]) = CurrentConfiguration

\* C37: the buffer holds each server row at most once: no two indices of the
\* buffer hold the row of the same server offset of the same query.
C37_NoDuplicateRows ==
    \A i, j \in 1..Len(dataGrid.allData) :
        i < j => dataGrid.allData[i] # dataGrid.allData[j]

\* the server offsets of the rows the answered data requests delivered
FetchedOffsets ==
    UNION {{OffsetOf(RowsOf(reqs[i])[k]) : k \in 1..Len(RowsOf(reqs[i]))} :
              i \in {r \in ReqIds : reqs[r].thunk \in DataThunks
                                     /\ reqs[r].status = "fulfilled"}}

\* the offset that follows the last row fetched so far
NextUnfetchedOffset ==
    IF FetchedOffsets = {} THEN 0
    ELSE 1 + CHOOSE o \in FetchedOffsets : \A p \in FetchedOffsets : p <= o

\* the step is a load-more that starts a fetch
LoadMoreFetches ==
    /\ lastOp'.op = "loadMore"
    /\ Len(reqs') = Len(reqs) + 1

\* C38: with more server rows than the cache ceiling, in a run of answered
\* sequential loads each load-more asks for the server offset that follows the
\* last row fetched so far, also after evictions, and once every offset of
\* [0, totalRows) has been fetched hasMoreData is false and a load-more starts
\* no fetch.
C38_LoadMoreReachesEnd ==
    /\ [][(SequentialLoads /\ serverTotal > MAX_CACHED_ROWS /\ LoadMoreFetches)
             => reqs'[Len(reqs')].offset = NextUnfetchedOffset]_vars
    /\ []((SequentialLoads /\ serverTotal > MAX_CACHED_ROWS
              /\ FetchedOffsets = 0..(serverTotal - 1))
             => ~selectHasMoreData(dataGrid))

\* a foreground fetch (initial load or load-more) is in flight and not
\* cancelled; the metadata fetch, which uses the same flag, counts as one
ForegroundInFlight ==
    \/ metadataFetch = "inflight"
    \/ \E i \in ReqIds : /\ reqs[i].thunk \in DataThunks
                         /\ ~reqs[i].isPrefetch
                         /\ reqs[i].status = "inflight"

\* a prefetch is in flight and not cancelled
PrefetchInFlight ==
    \E i \in ReqIds : /\ reqs[i].thunk = "fetchDataRange"
                      /\ reqs[i].isPrefetch
                      /\ reqs[i].status = "inflight"

\* C39: between tasks, isLoading is true iff a foreground fetch is in flight and
\* isPrefetching is true iff a prefetch is in flight: the settlement of one
\* request never clears the flag of a request of the other kind or of a newer
\* request that is still in flight.
C39_FlagsTrackRequests ==
    ~MicrotaskQueued =>
        /\ dataGrid.isLoading <=> ForegroundInFlight
        /\ dataGrid.isPrefetching <=> PrefetchInFlight

\* the positions the tracked ranges cover
TrackedPositions(ranges) ==
    UNION {ranges[i].start..(ranges[i].end - 1) : i \in 1..Len(ranges)}

\* the row of server offset o is in the buffer
OffsetPresent(o) ==
    \E k \in 1..Len(dataGrid.allData) : OffsetOf(dataGrid.allData[k]) = o

\* no data request is in flight or about to settle
NoFetchInFlight ==
    /\ ~MicrotaskQueued
    /\ \A i \in ReqIds : reqs[i].thunk \in DataThunks => reqs[i].status # "inflight"

\* C40: the tracked ranges agree with the buffer: every range lies within
\* [0, bufferLength]; a range isRangeLoaded reports as loaded has its rows (as
\* far as the server has them) in the buffer; and with no fetch in flight and a
\* non-empty buffer the ranges cover exactly [0, bufferLength).
C40_RangesAgreeWithBuffer ==
    LET ranges == dataGrid.loadedRanges
        length == Len(dataGrid.allData)
    IN /\ \A i \in 1..Len(ranges) : 0 <= ranges[i].start /\ ranges[i].end <= length
       /\ \A offset \in 0..MaxServerRows :
              isRangeLoaded(ranges, offset, BATCH_SIZE) =>
                  \A o \in offset..(Min(offset + BATCH_SIZE, serverTotal) - 1) :
                      OffsetPresent(o)
       /\ (NoFetchInFlight /\ length > 0) =>
              TrackedPositions(ranges) = 0..(length - 1)

====
